---- MODULE Spec2Model ----
(***************************************************************************)
(* ValutaTrade Hub: the rate cache and the staleness-gated trading engine  *)
(* (core/usecases.py, core/models.py, core/utils.py, core/currencies.py,   *)
(* infra/database.py, parser_service/storage.py).                          *)
(*                                                                         *)
(* Money is a Python float.  A float is modelled as a whole number of the  *)
(* smallest unit with a significand of MantissaBits bits (53 in CPython),  *)
(* every sum, difference and product rounded to the nearest such number,   *)
(* ties to even; and one extra value, NaN, because float() accepts the     *)
(* string "nan" and every comparison with NaN is false.                    *)
(***************************************************************************)
EXTENDS Integers, Sequences, FiniteSets, TLC

VARIABLES
    now,         \* the wall clock, in seconds (datetime.now())
    rates,       \* rates.json: [pairs, last_refresh]
    portfolios,  \* portfolios.json: a list of [user_id, wallets]
    svc,         \* the live PortfolioService objects: [user, wallets]
    last,        \* the last call made and how it ended
    clean,       \* every buy and sell so far returned its result, and no wallet was used directly
    history,     \* exchange_rates.json: the list of rate records
    log,         \* every record save_exchange_rate was given so far, in call order
    disk,        \* rates.json and rates.json.tmp as the file system holds them
    job,         \* the save_current_rates call of each thread, step by step
    req,         \* the HTTP request a provider client is making
    sched,       \* the Scheduler object and the loop threads it started
    users,       \* users.json: a list of user records
    cli          \* the command session: its current user and its loop

\* the state of the parser service
parserVars == <<history, log>>

\* the state of the files and of the threads that write them
fileVars == <<disk, job>>

\* the state of the provider clients, the scheduler and the user service
serviceVars == <<req, sched, users, cli>>

vars == <<now, rates, portfolios, svc, last, clean, history, log, disk, job, req, sched,
          users, cli>>

----------------------------------------------------------------------------
(* Bounds of the model *)

MaxTicks == 1        \* the clock advances at most this many times
MaxBalance == 2      \* trades and deposits that would exceed it are not explored
MaxTradeBalance == 4 \* the same, where only well-formed trades are made
FileChunks == 2      \* the writes json.dump takes to put a file on disk
HistoryLimit == 2    \* the records the history keeps (1000 in the source)
MaxUsers == 2        \* the users registered in all
MaxThreads == 2      \* the loop threads a scheduler starts in all
PollsPerWait == 2    \* the polls of one wait between two runs (600 in the source)
MaxAppends == 3      \* save_exchange_rate is called at most this many times
MantissaBits == 2    \* bits of the significand of a float

(* Program constants *)

RATES_TTL == 300

\* one step of the clock: an entry written one step ago is aged exactly RATES_TTL
TickSeconds == RATES_TTL

----------------------------------------------------------------------------
(* Floats: [nan, v].  Every comparison with NaN is false, every arithmetic *)
(* operation with NaN gives NaN, every other result is rounded to the      *)
(* nearest representable number, ties to even (IEEE 754, as Python's       *)
(* float).                                                                 *)

Abs(n) == IF n < 0 THEN 0 - n ELSE n

\* the spacing of the representable numbers at magnitude m: the least power
\* of two u with m < 2^MantissaBits * u
Ulp(m) ==
    2^(CHOOSE k \in 0..m : /\ m < 2^(MantissaBits + k)
                           /\ (k = 0 \/ m >= 2^(MantissaBits + k - 1)))

\* the multiple of u nearest to the magnitude m, ties to the even multiple
RoundMag(m, u) ==
    IF 2 * (m % u) < u THEN (m \div u) * u
    ELSE IF 2 * (m % u) > u THEN (m \div u + 1) * u
    ELSE IF (m \div u) % 2 = 0 THEN (m \div u) * u
    ELSE (m \div u + 1) * u

\* round to nearest, ties to even
Round(n) == IF n < 0 THEN 0 - RoundMag(Abs(n), Ulp(Abs(n))) ELSE RoundMag(n, Ulp(n))

F(n) == [nan |-> FALSE, v |-> Round(n)]
NaN == [nan |-> TRUE, v |-> 0]
Zero == F(0)

FLt(a, b) == ~a.nan /\ ~b.nan /\ a.v < b.v
FLe(a, b) == ~a.nan /\ ~b.nan /\ a.v <= b.v
FAdd(a, b) == IF a.nan \/ b.nan THEN NaN ELSE F(a.v + b.v)
FSub(a, b) == IF a.nan \/ b.nan THEN NaN ELSE F(a.v - b.v)
FMul(a, b) == IF a.nan \/ b.nan THEN NaN ELSE F(a.v * b.v)

----------------------------------------------------------------------------
(* Currency registry (a part of the eleven built-in codes) *)

Registry == {"USD", "EUR", "BTC"}
UnknownCode == "XXX"
BASE_CURRENCY == "USD"

\* str.upper on the codes that are written in lower case here
Upper(code) ==
    CASE code = "usd" -> "USD"
      [] code = "btc" -> "BTC"
      [] OTHER -> code

\* CurrencyRegistry.get_currency: the code in upper case, or CurrencyNotFoundError
get_currency(code) ==
    IF Upper(code) \in Registry THEN [found |-> TRUE, code |-> Upper(code)]
    ELSE [found |-> FALSE, code |-> Upper(code)]

UserIds == {1}
Services == {1, 2}
NoUser == 0
NoTime == -1

----------------------------------------------------------------------------
(* utils.validate_amount: float(amount), then value <= 0 is rejected *)

AmountStrings == {"abc", "0", "1", "2", "nan"}

\* float(s): ValueError for a non-numeric string; "nan" parses to NaN
ParseFloat(s) ==
    CASE s = "0" -> [ok |-> TRUE, value |-> F(0)]
      [] s = "1" -> [ok |-> TRUE, value |-> F(1)]
      [] s = "2" -> [ok |-> TRUE, value |-> F(2)]
      [] s = "nan" -> [ok |-> TRUE, value |-> NaN]
      [] OTHER -> [ok |-> FALSE, value |-> Zero]

\* the check of validate_amount on the parsed value: value <= 0 is rejected
CheckPositive(p) ==
    IF ~p.ok THEN [ok |-> FALSE, value |-> Zero]
    ELSE IF FLe(p.value, Zero) THEN [ok |-> FALSE, value |-> Zero]
    ELSE [ok |-> TRUE, value |-> p.value]

validate_amount(amount) == CheckPositive(ParseFloat(amount))

----------------------------------------------------------------------------
(* Rate cache *)

\* the key f"{from}_{to}"
PairKey(from_cur, to_cur) == <<Upper(from_cur), Upper(to_cur)>>

PairKeys == {PairKey("BTC", BASE_CURRENCY)}
RateValues == {-1, 0, 1, 2}
Sources == {"coingecko"}

\* mutant: an entry one second younger than the TTL already counts as stale
IsFresh_OneShort(updated_at, t) == (t - updated_at) < RATES_TTL - 1

\* mutant: an entry aged exactly the TTL still counts as fresh
IsFresh_Inclusive(updated_at, t) == (t - updated_at) <= RATES_TTL

\* (now - updated_at) < timedelta(seconds=RATES_TTL)
IsFresh(updated_at, t) == (t - updated_at) < RATES_TTL

NoRate == [none |-> TRUE, rate |-> 0, updated_at |-> NoTime, is_fresh |-> FALSE]

\* _get_cached_rate: (None, None, False) for an absent pair or a falsy rate
_get_cached_rate(from_cur, to_cur) ==
    LET pair_key == PairKey(from_cur, to_cur) IN
    IF pair_key \notin DOMAIN rates.pairs THEN NoRate
    ELSE LET pair_info == rates.pairs[pair_key] IN
         IF pair_info.rate = 0 THEN NoRate
         ELSE [none |-> FALSE, rate |-> pair_info.rate,
               updated_at |-> pair_info.updated_at,
               is_fresh |-> IsFresh(pair_info.updated_at, now)]

\* mutant: the new pairs replace the whole cache
DictUpdate_Replace(old, new) == new

\* dict.update: the keys of new_pairs replace, the others stay
DictUpdate(old, new) ==
    [k \in DOMAIN old \cup DOMAIN new |-> IF k \in DOMAIN new THEN new[k] ELSE old[k]]

\* ParserStorage.save_current_rates
save_current_rates(cache, new_rates, source, current_time) ==
    LET new_pairs == [k \in DOMAIN new_rates |->
                        [rate |-> new_rates[k], updated_at |-> current_time,
                         source |-> source]]
    IN [pairs |-> DictUpdate(cache.pairs, new_pairs), last_refresh |-> current_time]

----------------------------------------------------------------------------
(* The parser service (parser_service/): two sources, each tracking one    *)
(* currency against the base: CoinGecko for BTC, ExchangeRate-API for EUR.  *)

\* a dict of rates with no pair
EmptyRates == [k \in {} |-> 0]

\* the pairs the parser service tracks
IngestKeys == {PairKey("BTC", BASE_CURRENCY), PairKey("EUR", BASE_CURRENCY)}

CRYPTO_CURRENCIES == {"BTC"}
FIAT_CURRENCIES == {"EUR"}
NoSource == "none"
SourceNames == <<"coingecko", "exchangerate">>

\* what CoinGecko quotes for a coin, and what ExchangeRate-API gives for a
\* currency per unit of the base
Quotes == {-1, 1}
ConversionValues == {-1, 0, 1}

\* 1.0 / conv
Reciprocal(conv) == CHOOSE r \in -1..1 : r * conv = 1

\* the rate ExchangeRateApiClient.fetch_rates derives from a conversion value
FiatRate(conv) == IF conv # 0 THEN Reciprocal(conv) ELSE 0

\* what fetch_rates gives: the rates, or an exception raised
Fetched(rates_) == [raised |-> FALSE, rates |-> rates_]
FetchFailed == [raised |-> TRUE, rates |-> EmptyRates]

\* the answers of a provider: no data, for one of the reasons in failures (the
\* request fails, the API key is missing), or data for some tracked currencies
Responses(codes, values, failures) ==
    {[status |-> f, data |-> EmptyRates] : f \in failures}
    \cup {[status |-> "ok", data |-> d] : d \in UNION {[S -> values] : S \in SUBSET codes}}

\* how a fetch_rates call fails: with ApiRequestError or with another exception
FailureKinds == {"error", "crash"}

\* CoinGeckoClient.fetch_rates: the quote is stored as it comes
CoinGeckoFetch(response) ==
    IF response.status \in FailureKinds THEN FetchFailed
    ELSE Fetched([k \in {PairKey(c, BASE_CURRENCY) : c \in DOMAIN response.data} |->
                     response.data[k[1]]])

\* ExchangeRateApiClient.fetch_rates: no key gives {}, the base is USD
ExchangeRateFetch(response) ==
    IF response.status = "nokey" THEN Fetched(EmptyRates)
    ELSE IF response.status \in FailureKinds THEN FetchFailed
    ELSE Fetched([k \in {PairKey(c, BASE_CURRENCY) : c \in DOMAIN response.data} |->
                     FiatRate(response.data[k[1]])])

\* client.fetch_rates() of the client named source_name
fetch_rates(source_name, responses) ==
    IF source_name = "coingecko" THEN CoinGeckoFetch(responses.coingecko)
    ELSE ExchangeRateFetch(responses.exchangerate)

\* the record save_exchange_rate stores for a pair
RateRecord(pair_key, rate, source, t) ==
    [from_currency |-> pair_key[1], to_currency |-> pair_key[2], rate |-> rate,
     timestamp |-> t, source |-> source]

\* history[-1000:]
LastRecords(h, n) == SubSeq(h, Len(h) - n + 1, Len(h))

\* mutant: the history keeps its oldest records
TrimHistory_Oldest(h) == IF Len(h) > HistoryLimit THEN SubSeq(h, 1, HistoryLimit) ELSE h

\* if len(history) > 1000: history = history[-1000:]
TrimHistory(h) == IF Len(h) > HistoryLimit THEN LastRecords(h, HistoryLimit) ELSE h

\* ParserStorage.save_exchange_rate
save_exchange_rate(h, record) == TrimHistory(Append(h, record))

\* what each client gave, before any is asked
NotAsked == [n \in {SourceNames[1], SourceNames[2]} |-> [kind |-> "", rates |-> EmptyRates]]

\* what run_update sees of a fetch_rates call: an exception, {} or rates
Outcome_(fetched) ==
    [kind |-> IF fetched.raised THEN "raised"
              ELSE IF DOMAIN fetched.rates = {} THEN "empty" ELSE "rates",
     rates |-> fetched.rates]

\* the progress of run_update: the merged rates, the sources that gave some,
\* the sources asked and what each gave, and the history file
Progress(all_rates, successful_sources, queried, h, lg) ==
    [all_rates |-> all_rates, successful_sources |-> successful_sources,
     queried |-> queried, fetched |-> NotAsked, selection |-> "", broken |-> {},
     history |-> h, log |-> lg]

\* run_update's try around save_exchange_rate for one pair: a write that
\* raises is logged and leaves the history as it was
SaveRecord(h, record, fails) == IF fails THEN h ELSE save_exchange_rate(h, record)

\* the records written so far, after the same call
Logged(lg, record, fails) == IF fails THEN lg ELSE Append(lg, record)

\* mutant: the rates of a source are merged without a history record
SavePair_NoHistory(acc, source_name, rates_, pair_key, t, broken) ==
    [acc EXCEPT !.all_rates = DictUpdate(acc.all_rates, rates_),
                !.successful_sources = Append(acc.successful_sources, source_name)]

\* run_update's loop over rates.items(), for the one pair a source gives, then
\* all_rates.update(rates) and successful_sources.append(source_name)
SavePair(acc, source_name, rates_, pair_key, t, broken) ==
    [acc EXCEPT !.all_rates = DictUpdate(acc.all_rates, rates_),
                !.successful_sources = Append(acc.successful_sources, source_name),
                !.history = SaveRecord(acc.history,
                                RateRecord(pair_key, rates_[pair_key], source_name, t),
                                pair_key \in broken),
                !.log = Logged(acc.log,
                               RateRecord(pair_key, rates_[pair_key], source_name, t),
                               pair_key \in broken)]

\* run_update's loop body once fetch_rates returned: no rates, no more to do
SavePairs(acc, source_name, rates_, t, broken) ==
    IF DOMAIN rates_ = {} THEN acc
    ELSE SavePair(acc, source_name, rates_, CHOOSE k \in DOMAIN rates_ : TRUE, t, broken)

\* mutant: a source that raises makes run_update forget what it had merged
SourceFetched_Forgetful(acc, source_name, fetched, t, broken) ==
    IF fetched.raised
    THEN [acc EXCEPT !.all_rates = EmptyRates, !.successful_sources = <<>>]
    ELSE SavePairs(acc, source_name, fetched.rates, t, broken)

\* run_update's loop body after fetch_rates: both except clauses only log
SourceFetched(acc, source_name, fetched, t, broken) ==
    IF fetched.raised THEN acc
    ELSE SavePairs(acc, source_name, fetched.rates, t, broken)

\* the progress once the client of source_name is asked
Asked(acc, source_name, fetched) ==
    [acc EXCEPT !.queried = Append(acc.queried, source_name),
                !.fetched[source_name] = Outcome_(fetched)]

\* run_update's loop body for one source
SourceStep(acc, source_name, responses, t, broken) ==
    IF source_name \notin {SourceNames[1], SourceNames[2]} THEN acc
    ELSE SourceFetched(Asked(acc, source_name, fetch_rates(source_name, responses)),
                       source_name, fetch_rates(source_name, responses), t, broken)

\* mutant: the tag names the first source only
JoinSources_First(successful_sources) ==
    IF Len(successful_sources) = 0 THEN "" ELSE successful_sources[1]

\* ",".join(successful_sources)
JoinSources(successful_sources) ==
    IF Len(successful_sources) = 0 THEN ""
    ELSE IF Len(successful_sources) = 1 THEN successful_sources[1]
    ELSE successful_sources[1] \o "," \o successful_sources[2]

\* run_update(source) before its loop; the history writes of the pairs in
\* broken will raise
Started(source, broken, h, lg) ==
    [Progress(EmptyRates, <<>>, <<>>, h, lg) EXCEPT !.selection = source, !.broken = broken]

\* RatesUpdater.run_update up to the end of its loop
run_update(source, responses, broken, h, lg, t) ==
    IF source = NoSource
    THEN SourceStep(SourceStep(Started(source, broken, h, lg), SourceNames[1],
                               responses, t, broken),
                    SourceNames[2], responses, t, broken)
    ELSE SourceStep(Started(source, broken, h, lg), source, responses, t, broken)

----------------------------------------------------------------------------
(* BaseApiClient._make_request (parser_service/api_clients.py): the request *)
(* of a provider client, one iteration of its retry loop at a time.         *)

REQUEST_RETRIES == 3
MinPasswordLen == 4
RETRY_DELAY == 1

\* what session.get can give: a response with status 200, a response with
\* another status, or a requests.exceptions.RequestException
AttemptOutcomes == {"ok", "http_error", "transport"}

\* no request is being made
NoRequest == [pc |-> "idle", client |-> "", attempt |-> 0, seen |-> <<>>,
              waits |-> <<>>, kind |-> ""]

\* mutant: the same pause after every failed attempt
RetryPause_Constant(attempt) == RETRY_DELAY

\* time.sleep(RETRY_DELAY * (attempt + 1))
RetryPause(attempt) == RETRY_DELAY * (attempt + 1)

\* the longest one request can sleep in all
MaxPause == RETRY_DELAY * ((REQUEST_RETRIES * (REQUEST_RETRIES - 1)) \div 2)

\* one iteration of the loop of _make_request, session.get giving outcome
attempt_(r, outcome) ==
    IF outcome = "ok"
    THEN [r EXCEPT !.pc = "returned", !.seen = Append(r.seen, outcome)]
    ELSE IF outcome = "http_error"
    THEN [r EXCEPT !.pc = "raised", !.kind = "ApiRequestError",
                   !.seen = Append(r.seen, outcome)]
    ELSE IF r.attempt = REQUEST_RETRIES - 1
    THEN [r EXCEPT !.pc = "raised", !.kind = "ApiRequestError",
                   !.seen = Append(r.seen, outcome)]
    ELSE [r EXCEPT !.attempt = r.attempt + 1, !.seen = Append(r.seen, outcome),
                   !.waits = Append(r.waits, RetryPause(r.attempt))]

\* the seconds the iteration sleeps
Slept(r, r2) == IF Len(r2.waits) > Len(r.waits) THEN r2.waits[Len(r2.waits)] ELSE 0

----------------------------------------------------------------------------
(* Scheduler (parser_service/scheduler.py): the object's attributes, the    *)
(* caller of start() and stop(), and the loop threads, one step at a time.  *)

ThreadIds == 1..MaxThreads

\* a thread that was not created yet
Unborn == [pc |-> "unborn", polls |-> 0, failed |-> FALSE]

\* Scheduler.__init__
NewScheduler ==
    [stop_event |-> FALSE, thread |-> 0, running |-> FALSE, caller |-> "ready",
     loops |-> [t \in ThreadIds |-> Unborn]]

\* Thread.is_alive()
Alive(loop) == loop.pc \notin {"unborn", "dead"}

\* the thread is in run_update or in its pause after an error: it does not
\* look at the stop flag for longer than a join waits
Busy(loop) == loop.pc \in {"ingest", "cooldown"}

\* Scheduler.is_running
is_running(s) == s.running /\ s.thread # 0 /\ Alive(s.loops[s.thread])

\* the thread Thread(target=self._run_loop) creates
NextThread(s) == CHOOSE t \in ThreadIds :
    /\ s.loops[t].pc = "unborn"
    /\ \A u \in ThreadIds : s.loops[u].pc = "unborn" => t <= u

\* mutant: start() does not look at is_running
start_Unguarded(s) ==
    [s EXCEPT !.stop_event = FALSE, !.thread = NextThread(s),
              !.loops[NextThread(s)].pc = "top", !.running = TRUE]

\* Scheduler.start
start_(s) ==
    IF is_running(s) THEN s
    ELSE [s EXCEPT !.stop_event = FALSE, !.thread = NextThread(s),
                   !.loops[NextThread(s)].pc = "top", !.running = TRUE]

\* Scheduler.stop up to its join
stop_set(s) == [s EXCEPT !.stop_event = TRUE, !.caller = "joining"]

\* Scheduler.stop after its join
stop_joined(s) == [s EXCEPT !.running = FALSE, !.caller = "ready"]

\* mutant: an ingestion run that raises ends the loop
after_ingest_Fatal(raised) == IF raised THEN "dead" ELSE "wait"

\* _run_loop after run_update: the wait, or the except clause and its pause
after_ingest(raised) == IF raised THEN "cooldown" ELSE "wait"

\* _run_loop at its while: the loop ends where the stop flag is set
loop_top(s, t) ==
    [s EXCEPT !.loops[t].pc = IF s.stop_event THEN "dead" ELSE "ingest"]

\* _run_loop leaving run_update
loop_ingested(s, t, raised) ==
    [s EXCEPT !.loops[t].pc = after_ingest(raised), !.loops[t].polls = 0,
              !.loops[t].failed = s.loops[t].failed \/ raised]

\* _run_loop after time.sleep(5)
loop_cooled(s, t) == [s EXCEPT !.loops[t].pc = "top"]

\* one round of the wait: break where the stop flag is set, else sleep(0.5)
loop_poll(s, t) ==
    IF s.stop_event \/ s.loops[t].polls + 1 = PollsPerWait
    THEN [s EXCEPT !.loops[t].pc = "top", !.loops[t].polls = 0]
    ELSE [s EXCEPT !.loops[t].polls = s.loops[t].polls + 1]

----------------------------------------------------------------------------
(* The store files (infra/database.py).  json.dump puts a file on disk in  *)
(* FileChunks writes; a file is the sequence of the chunks written so far.  *)
(* Two threads save rates.json: the update-rates command and the scheduler. *)

Threads == {"command", "scheduler"}

\* {"pairs": {}, "last_refresh": None}
EmptyCache == [pairs |-> EmptyRates, last_refresh |-> NoTime]

\* what a file holds where nothing was written: past a truncation point
Hole == [part |-> 0, of |-> EmptyCache]

\* json.dump(data): the text of data, in the chunks it is written in
Encode(data) == [i \in 1..FileChunks |-> [part |-> i, of |-> data]]

\* json.load: the value a file holds, or JSONDecodeError where the content is
\* not the whole text of one value
Decode(content) ==
    IF /\ Len(content) = FileChunks
       /\ \A i \in 1..FileChunks : content[i] = [part |-> i, of |-> content[1].of]
    THEN [ok |-> TRUE, value |-> content[1].of]
    ELSE [ok |-> FALSE, value |-> EmptyCache]

\* the files after a _save_json that no other save overlaps
Stored(data) == [path |-> Encode(data), tmp_exists |-> FALSE, tmp |-> <<>>]

\* DatabaseManager.load_rates_cache: _load_json with its default
load_rates_cache(d) == IF Decode(d.path).ok THEN Decode(d.path).value ELSE EmptyCache

\* f.write(chunk) at the offset pos of a file
WriteAt(content, pos, chunk) ==
    [i \in 1..(IF Len(content) > pos THEN Len(content) ELSE pos + 1) |->
        IF i = pos + 1 THEN chunk
        ELSE IF i <= Len(content) THEN content[i] ELSE Hole]

\* a thread that is not saving
NoJob == [pc |-> "idle", new_rates |-> EmptyRates, cache |-> EmptyCache,
          fd |-> "", pos |-> 0]

----------------------------------------------------------------------------
(* Wallet and Portfolio (core/models.py).  A portfolio's wallets are a     *)
(* function from the held currency codes to balances.                      *)

\* Portfolio.add_currency: a new Wallet(code) with balance 0.0 if not held
add_currency(w, code) ==
    IF Upper(code) \in DOMAIN w THEN w
    ELSE [c \in DOMAIN w \cup {Upper(code)} |-> IF c = Upper(code) THEN Zero ELSE w[c]]

\* Wallet.deposit on the wallet `code` of w
deposit(w, code, amount) ==
    IF FLe(amount, Zero) THEN [kind |-> "ValueError", wallets |-> w]
    ELSE [kind |-> "ok", wallets |-> [w EXCEPT ![code] = FAdd(w[code], amount)]]

\* mutant: withdraw without the funds check
withdraw_Unchecked(w, code, amount) ==
    IF FLe(amount, Zero) THEN [kind |-> "ValueError", wallets |-> w]
    ELSE [kind |-> "ok", wallets |-> [w EXCEPT ![code] = FSub(w[code], amount)]]

\* Wallet.withdraw on the wallet `code` of w
withdraw(w, code, amount) ==
    IF FLe(amount, Zero) THEN [kind |-> "ValueError", wallets |-> w]
    ELSE IF FLt(w[code], amount) THEN [kind |-> "InsufficientFundsError", wallets |-> w]
    ELSE [kind |-> "ok", wallets |-> [w EXCEPT ![code] = FSub(w[code], amount)]]

\* Portfolio.to_dict / Portfolio.from_dict: the record kept in portfolios.json
PortfolioRecord(user_id, w) == [user_id |-> user_id, wallets |-> w]

\* Wallet.__init__ rejects a negative initial balance
FromDictOk(rec) == \A c \in DOMAIN rec.wallets : ~FLt(rec.wallets[c], Zero)

\* index of the first record of user_id in the stored list, 0 if none
IndexOf(store, user_id) ==
    IF \E i \in 1..Len(store) : store[i].user_id = user_id
    THEN CHOOSE i \in 1..Len(store) :
            /\ store[i].user_id = user_id
            /\ \A j \in 1..(i - 1) : store[j].user_id # user_id
    ELSE 0

\* mutant: the record is appended whether or not the user has one
_save_portfolio_Append(store, user_id, w) == Append(store, PortfolioRecord(user_id, w))

\* mutant: the record written is the first of the store
_save_portfolio_First(store, user_id, w) ==
    IF store = <<>> THEN <<PortfolioRecord(user_id, w)>>
    ELSE [store EXCEPT ![1] = PortfolioRecord(user_id, w)]

\* PortfolioService._save_portfolio: replace the user's record, or append it
_save_portfolio(store, user_id, w) ==
    LET i == IndexOf(store, user_id) IN
    IF i # 0 THEN [store EXCEPT ![i] = PortfolioRecord(user_id, w)]
    ELSE Append(store, PortfolioRecord(user_id, w))

EmptyWallets == [c \in {} |-> Zero]

----------------------------------------------------------------------------
(* The trading engine (core/usecases.py, PortfolioService) *)

\* PortfolioService._get_or_create_wallet
_get_or_create_wallet(w, currency_code) == add_currency(w, currency_code)

\* mutant: the cost of a buy ignores the rate
BuyCost_AmountOnly(amount_float, rate) == amount_float

\* required = amount_float * rate (buy), the cost of a buy
BuyCost(amount_float, rate) == FMul(amount_float, F(rate))

\* mutant: the proceeds of a sell ignore the rate
SellProceeds_AmountOnly(amount_float, rate) == amount_float

\* proceeds = amount_float * rate (sell)
SellProceeds(amount_float, rate) == FMul(amount_float, F(rate))

\* mutant: a balance equal to the required amount is refused
FundsShort_Inclusive(balance, required) == FLe(balance, required)

\* the funds check: wallet_from.balance < required
FundsShort(balance, required) == FLt(balance, required)

\* the pair looked up: _get_cached_rate(currency.code, base_currency), for buy
\* and for sell alike
RateArgs(currency_code, base_currency, transaction_type) == <<currency_code, base_currency>>

NoPrep ==
    [kind |-> "ok", reason |-> "", amount_float |-> Zero, rate |-> 0,
     is_fresh |-> FALSE, available |-> Zero, required |-> Zero, errcode |-> ""]

\* _prepare_transaction, the checks in the order of the code, on the validated
\* amount a, the registry entry currency, the cache lookup r, the wallets w2
\* after both wallets were fetched or created and the required debit
PrepareChecks(w, a, currency, r, wallet_from, w2, required, reported) ==
    IF ~a.ok THEN
        [NoPrep EXCEPT !.kind = "ValueError", !.reason = "amount"] @@ [wallets |-> w]
    ELSE IF ~currency.found THEN
        [NoPrep EXCEPT !.kind = "CurrencyNotFoundError", !.reason = "currency",
                       !.errcode = currency.code] @@ [wallets |-> w]
    ELSE IF r.none THEN
        [NoPrep EXCEPT !.kind = "ApiRequestError", !.reason = "unavailable"] @@ [wallets |-> w]
    ELSE IF ~r.is_fresh THEN
        [NoPrep EXCEPT !.kind = "ApiRequestError", !.reason = "stale"] @@ [wallets |-> w]
    ELSE IF FundsShort(w2[wallet_from], required) THEN
        [NoPrep EXCEPT !.kind = "InsufficientFundsError", !.reason = "funds",
                       !.available = w2[wallet_from], !.required = required,
                       !.errcode = reported] @@ [wallets |-> w2]
    ELSE
        [NoPrep EXCEPT !.amount_float = a.value, !.rate = r.rate, !.is_fresh = r.is_fresh]
            @@ [wallets |-> w2]

\* _prepare_transaction from the rate on: the wallet debited, the wallets
\* fetched or created (debit side first), the required amount
PrepareWallets(w, a, currency, r, base_currency, transaction_type) ==
    PrepareChecks(w, a, currency, r,
        IF transaction_type = "buy" THEN Upper(base_currency) ELSE currency.code,
        IF transaction_type = "buy"
        THEN _get_or_create_wallet(_get_or_create_wallet(w, base_currency), currency.code)
        ELSE _get_or_create_wallet(_get_or_create_wallet(w, currency.code), base_currency),
        IF transaction_type = "buy" THEN BuyCost(a.value, r.rate) ELSE a.value,
        IF transaction_type = "buy" THEN base_currency ELSE currency.code)

\* _prepare_transaction from the rate lookup on
PrepareRate(w, a, currency, base_currency, transaction_type) ==
    PrepareWallets(w, a, currency,
        _get_cached_rate(RateArgs(currency.code, base_currency, transaction_type)[1],
                         RateArgs(currency.code, base_currency, transaction_type)[2]),
        base_currency, transaction_type)

\* PortfolioService._prepare_transaction on the in-memory wallets w; `wallets`
\* of the result is the portfolio afterwards
_prepare_transaction(w, currency_code, amount, base_currency, transaction_type) ==
    PrepareRate(w, validate_amount(amount), get_currency(currency_code), base_currency,
                transaction_type)

NoResult ==
    [amount |-> Zero, rate |-> 0, base_currency |-> "", new_balance |-> Zero,
     base_balance |-> Zero, rate_fresh |-> FALSE]

\* how a call ends: the exception raised (kind) or the result returned, the
\* in-memory wallets and the stored portfolios afterwards; executed: the call
\* passed every check of _prepare_transaction; saved: _save_portfolio ran
Outcome(kind, reason, executed, p, w, store, saved, returned, result) ==
    [kind |-> kind, reason |-> reason, executed |-> executed, saved |-> saved,
     available |-> p.available, required |-> p.required, errcode |-> p.errcode,
     rate |-> p.rate, amount_float |-> p.amount_float,
     wallets |-> w, store |-> store, returned |-> returned, result |-> result]

\* the result of building the dict returned by buy_currency: "currency":
\* currency_code.code is evaluated on a str and raises AttributeError
BuyReturn(p, w, store, currency_code, base_currency) ==
    Outcome("AttributeError", "result", TRUE, p, w, store, TRUE, FALSE, NoResult)

\* buy_currency after target_wallet.deposit(amount_float): save, then return
BuyDeposited(p, dp, store, user_id, currency_code, base_currency) ==
    IF dp.kind # "ok"
    THEN Outcome(dp.kind, "deposit", TRUE, p, dp.wallets, store, FALSE, FALSE, NoResult)
    ELSE BuyReturn(p, dp.wallets, _save_portfolio(store, user_id, dp.wallets),
                   currency_code, base_currency)

\* buy_currency after base_wallet.withdraw(cost)
BuyWithdrawn(p, wd, store, user_id, currency_code, base_currency) ==
    IF wd.kind # "ok"
    THEN Outcome(wd.kind, "withdraw", TRUE, p, wd.wallets, store, FALSE, FALSE, NoResult)
    ELSE BuyDeposited(p, deposit(wd.wallets, Upper(currency_code), p.amount_float),
                      store, user_id, currency_code, base_currency)

\* buy_currency after _prepare_transaction
BuyPrepared(p, store, user_id, currency_code, base_currency) ==
    IF p.kind # "ok"
    THEN Outcome(p.kind, p.reason, FALSE, p, p.wallets, store, FALSE, FALSE, NoResult)
    ELSE BuyWithdrawn(p, withdraw(p.wallets, Upper(base_currency),
                                  BuyCost(p.amount_float, p.rate)),
                      store, user_id, currency_code, base_currency)

\* PortfolioService.buy_currency
buy_currency(w, store, user_id, currency_code, amount, base_currency) ==
    BuyPrepared(_prepare_transaction(w, currency_code, amount, base_currency, "buy"),
                store, user_id, currency_code, base_currency)

\* sell_currency after wallet_to.deposit(proceeds): save, then return the result
SellDeposited(p, dp, store, user_id, currency_code, base_currency) ==
    IF dp.kind # "ok"
    THEN Outcome(dp.kind, "deposit", TRUE, p, dp.wallets, store, FALSE, FALSE, NoResult)
    ELSE Outcome("ok", "", TRUE, p, dp.wallets, _save_portfolio(store, user_id, dp.wallets),
                 TRUE, TRUE,
                 [amount |-> p.amount_float, rate |-> p.rate, base_currency |-> base_currency,
                  new_balance |-> dp.wallets[Upper(currency_code)],
                  base_balance |-> dp.wallets[Upper(base_currency)],
                  rate_fresh |-> p.is_fresh])

\* sell_currency after wallet_from.withdraw(amount_float)
SellWithdrawn(p, wd, store, user_id, currency_code, base_currency) ==
    IF wd.kind # "ok"
    THEN Outcome(wd.kind, "withdraw", TRUE, p, wd.wallets, store, FALSE, FALSE, NoResult)
    ELSE SellDeposited(p, deposit(wd.wallets, Upper(base_currency),
                                  SellProceeds(p.amount_float, p.rate)),
                       store, user_id, currency_code, base_currency)

\* sell_currency after _prepare_transaction
SellPrepared(p, store, user_id, currency_code, base_currency) ==
    IF p.kind # "ok"
    THEN Outcome(p.kind, p.reason, FALSE, p, p.wallets, store, FALSE, FALSE, NoResult)
    ELSE SellWithdrawn(p, withdraw(p.wallets, Upper(currency_code), p.amount_float),
                       store, user_id, currency_code, base_currency)

\* PortfolioService.sell_currency
sell_currency(w, store, user_id, currency_code, amount, base_currency) ==
    SellPrepared(_prepare_transaction(w, currency_code, amount, base_currency, "sell"),
                 store, user_id, currency_code, base_currency)

\* how a get_rate call ends
NoRateResult ==
    [kind |-> "ok", reason |-> "", returned |-> FALSE, rate |-> 0, updated_at |-> NoTime,
     errcode |-> ""]

\* get_rate after the cache lookup r
GetRateLooked(r) ==
    IF r.none THEN [NoRateResult EXCEPT !.kind = "ApiRequestError", !.reason = "unavailable"]
    ELSE IF ~r.is_fresh THEN [NoRateResult EXCEPT !.kind = "ApiRequestError", !.reason = "stale"]
    ELSE [NoRateResult EXCEPT !.returned = TRUE, !.rate = r.rate, !.updated_at = r.updated_at]

\* get_rate after both registry lookups
GetRateChecked(from_cur, to_cur) ==
    IF ~from_cur.found THEN
        [NoRateResult EXCEPT !.kind = "CurrencyNotFoundError", !.reason = "currency",
                             !.errcode = from_cur.code]
    ELSE IF ~to_cur.found THEN
        [NoRateResult EXCEPT !.kind = "CurrencyNotFoundError", !.reason = "currency",
                             !.errcode = to_cur.code]
    ELSE GetRateLooked(_get_cached_rate(from_cur.code, to_cur.code))

\* RateService.get_rate
get_rate(from_code, to_code) == GetRateChecked(get_currency(from_code), get_currency(to_code))

----------------------------------------------------------------------------
(* The user service (core/usecases.py, UserService) and the users store.    *)
(* A string is the sequence of its characters.                              *)

Usernames == {<<>>, <<" ">>, <<"a">>, <<" ", "a">>, <<"b">>}
Passwords == {<<"p", "w", "d">>, <<"p", "w", "d", "1">>, <<"p", "w", "d", "2">>}

\* os.urandom(16).hex()
Salts == {"s1", "s2"}

RECURSIVE LStrip(_)
\* str.lstrip of white space
LStrip(s) == IF s # <<>> /\ Head(s) = " " THEN LStrip(Tail(s)) ELSE s

RECURSIVE RStrip(_)
\* str.rstrip of white space
RStrip(s) ==
    IF s # <<>> /\ s[Len(s)] = " " THEN RStrip(SubSeq(s, 1, Len(s) - 1)) ELSE s

\* str.strip
Strip(s) == RStrip(LStrip(s))

\* utils.hash_password: sha256 of password + salt, taken as one-to-one
hash_password(password, salt) == <<"sha256", password \o <<salt>>>>

\* User.to_dict of User(user_id, username, password)
UserRecord(user_id, username, password, salt, t) ==
    [user_id |-> user_id, username |-> username,
     hashed_password |-> hash_password(password, salt), salt |-> salt,
     registration_date |-> t]

NoUserRecord == UserRecord(NoUser, <<>>, <<>>, "", NoTime)

RECURSIVE MaxUserId(_)
\* max([u["user_id"] for u in users_data], default=0)
MaxUserId(users_data) ==
    IF users_data = <<>> THEN 0
    ELSE LET rest == MaxUserId(Tail(users_data)) IN
         IF Head(users_data).user_id > rest THEN Head(users_data).user_id ELSE rest

\* mutant: the greatest id stored is given again
NewUserId_Greatest(users_data) == MaxUserId(users_data)

\* the id register gives a new user
NewUserId(users_data) == MaxUserId(users_data) + 1

\* mutant: no look at the names already taken
Taken_Never(users_data, username) == FALSE

\* the uniqueness check of register
Taken(users_data, username) ==
    \E i \in 1..Len(users_data) : users_data[i].username = username

\* how a register call ends
Registered(kind, reason, users_data, portfolios_data, user) ==
    [kind |-> kind, reason |-> reason, users |-> users_data,
     portfolios |-> portfolios_data, user |-> user]

\* register past its checks: the user and then the empty portfolio are saved
register_save(users_data, portfolios_data, user) ==
    Registered("ok", "", Append(users_data, user),
               Append(portfolios_data, [user_id |-> user.user_id,
                                        wallets |-> [c \in {} |-> [nan |-> FALSE, v |-> 0]]]),
               user)

\* UserService.register
register(users_data, portfolios_data, username, password, salt, t) ==
    IF username = <<>> \/ Strip(username) = <<>>
    THEN Registered("ValueError", "username", users_data, portfolios_data, NoUserRecord)
    ELSE IF Len(password) < MinPasswordLen
    THEN Registered("ValueError", "password", users_data, portfolios_data, NoUserRecord)
    ELSE IF Taken(users_data, username)
    THEN Registered("ValueError", "taken", users_data, portfolios_data, NoUserRecord)
    ELSE register_save(users_data, portfolios_data,
                       UserRecord(NewUserId(users_data), username, password, salt, t))

\* User.verify_password
verify_password(user, password) ==
    user.hashed_password = hash_password(password, user.salt)

\* mutant: the new hash is stored before the length is looked at
change_password_Unchecked(user, new_password) ==
    [kind |-> IF Len(new_password) < MinPasswordLen THEN "ValueError" ELSE "ok",
     user |-> [user EXCEPT !.hashed_password = hash_password(new_password, user.salt)]]

\* User.change_password
change_password(user, new_password) ==
    IF Len(new_password) < MinPasswordLen
    THEN [kind |-> "ValueError", user |-> user]
    ELSE [kind |-> "ok",
          user |-> [user EXCEPT !.hashed_password = hash_password(new_password, user.salt)]]

\* the first record of username in the users store, 0 if none
UserIndex(users_data, username) ==
    IF Taken(users_data, username)
    THEN CHOOSE i \in 1..Len(users_data) :
            /\ users_data[i].username = username
            /\ \A j \in 1..(i - 1) : users_data[j].username # username
    ELSE 0

\* UserService.login
login(users_data, username, password) ==
    LET i == UserIndex(users_data, username) IN
    IF i = 0 THEN [kind |-> "ValueError", reason |-> "unknown", user |-> NoUserRecord]
    ELSE IF verify_password(users_data[i], password)
    THEN [kind |-> "ok", reason |-> "", user |-> users_data[i]]
    ELSE [kind |-> "ValueError", reason |-> "password", user |-> NoUserRecord]

\* CLI.__init__; password is the one the current user object accepts
NewCLI == [current_user |-> NoUserRecord, password |-> <<>>, alive |-> TRUE]

----------------------------------------------------------------------------
(* The command session (cli/interface.py). A token of a command line is a    *)
(* string, the sequence of its pieces: "--base" is <<"--", "base">>.         *)

Key(name) == <<"--", name>>

\* token.startswith("--")
Dashes(token) == token # <<>> /\ token[1] = "--"

\* result[key] = value
Put(d, k, v) == [x \in DOMAIN d \cup {k} |-> IF x = k THEN v ELSE d[x]]

NoArgs == [none |-> TRUE, dict |-> [k \in {} |-> <<>>]]

RECURSIVE ParsePairs(_, _, _)
\* the while loop of _parse_args from position i on
ParsePairs(args, i, result) ==
    IF i > Len(args) THEN [none |-> FALSE, dict |-> result]
    ELSE IF Dashes(args[i]) /\ i + 1 <= Len(args) /\ ~Dashes(args[i + 1])
    THEN ParsePairs(args, i + 2, Put(result, args[i], args[i + 1]))
    ELSE NoArgs

\* CLI._parse_args: None for a key without value, a value without key or a
\* missing expected key
_parse_args(args, expected) ==
    LET parsed == ParsePairs(args, 1, [k \in {} |-> <<>>]) IN
    IF parsed.none \/ ~(expected \subseteq DOMAIN parsed.dict) THEN NoArgs ELSE parsed

\* parser.get(key, default)
Get(d, k, default) == IF k \in DOMAIN d THEN d[k] ELSE default

\* a token of one piece as the str the use cases take
Text(token) == token[1]

\* PortfolioService(user): the wallets loaded and the store afterwards; a
\* stored negative balance makes Wallet.__init__ raise
_load_portfolio(store, user_id) ==
    IF IndexOf(store, user_id) = 0
    THEN [kind |-> "ok", wallets |-> EmptyWallets,
          store |-> Append(store, PortfolioRecord(user_id, EmptyWallets))]
    ELSE IF FromDictOk(store[IndexOf(store, user_id)])
    THEN [kind |-> "ok", wallets |-> store[IndexOf(store, user_id)].wallets, store |-> store]
    ELSE [kind |-> "ValueError", wallets |-> EmptyWallets, store |-> store]

NoRows == [c \in {} |-> [valued |-> FALSE, value |-> Zero, stale |-> FALSE]]

\* mutant: a stale rate is not used
Row_FreshOnly(balance, code, base) ==
    IF code = base THEN [valued |-> TRUE, value |-> balance, stale |-> FALSE]
    ELSE IF _get_cached_rate(code, base).none \/ ~_get_cached_rate(code, base).is_fresh
    THEN [valued |-> FALSE, value |-> Zero, stale |-> FALSE]
    ELSE [valued |-> TRUE, value |-> FMul(balance, F(_get_cached_rate(code, base).rate)),
          stale |-> FALSE]

\* one wallet in cmd_show_portfolio: its value, or none, and whether its rate
\* is noted as stale
Row(balance, code, base) ==
    IF code = base THEN [valued |-> TRUE, value |-> balance, stale |-> FALSE]
    ELSE IF _get_cached_rate(code, base).none
    THEN [valued |-> FALSE, value |-> Zero, stale |-> FALSE]
    ELSE [valued |-> TRUE, value |-> FMul(balance, F(_get_cached_rate(code, base).rate)),
          stale |-> ~_get_cached_rate(code, base).is_fresh]

\* the order in which a portfolio's wallets are gone through
CodeOrder == <<"USD", "EUR", "BTC">>

RECURSIVE Total(_, _, _)
\* total += value over the wallets that have a value
Total(rows, codes, total) ==
    IF codes = <<>> THEN total
    ELSE IF Head(codes) \in DOMAIN rows /\ rows[Head(codes)].valued
    THEN Total(rows, Tail(codes), FAdd(total, rows[Head(codes)].value))
    ELSE Total(rows, Tail(codes), total)

\* how cmd_show_portfolio ends: the exception reported or the table shown
Shown(kind, reason, store, base, rows) ==
    [kind |-> kind, reason |-> reason, store |-> store, base |-> base, rows |-> rows,
     total |-> Total(rows, CodeOrder, Zero)]

\* cmd_show_portfolio once the portfolio is loaded
ShowLoaded(loaded, base) ==
    IF loaded.kind # "ok" THEN Shown(loaded.kind, "load", loaded.store, base, NoRows)
    ELSE IF DOMAIN loaded.wallets = {} THEN Shown("ok", "empty", loaded.store, base, NoRows)
    ELSE Shown("ok", "", loaded.store, base,
               [c \in DOMAIN loaded.wallets |-> Row(loaded.wallets[c], c, base)])

\* CLI.cmd_show_portfolio, under catch_domain_errors: parser.get on None
\* raises AttributeError
cmd_show_portfolio(session, store, args) ==
    IF session.current_user = NoUserRecord THEN Shown("ok", "login", store, "", NoRows)
    ELSE IF _parse_args(args, {}).none THEN Shown("AttributeError", "args", store, "", NoRows)
    ELSE ShowLoaded(_load_portfolio(store, session.current_user.user_id),
                    Upper(Text(Get(_parse_args(args, {}).dict, Key("base"), <<"USD">>))))

\* how cmd_buy or cmd_sell ends without a trade being tried
NoTrade(kind, reason, store) ==
    Outcome(kind, reason, FALSE, NoPrep, EmptyWallets, store, FALSE, FALSE, NoResult)

\* cmd_buy and cmd_sell once the portfolio of the current user is loaded
TradeLoaded(op, loaded, user_id, currency, amount_str, base) ==
    IF loaded.kind # "ok" THEN NoTrade(loaded.kind, "load", loaded.store)
    ELSE IF op = "buy"
    THEN buy_currency(loaded.wallets, loaded.store, user_id, currency, amount_str, base)
    ELSE sell_currency(loaded.wallets, loaded.store, user_id, currency, amount_str, base)

\* cmd_buy and cmd_sell with arguments that parse
TradeParsed(op, store, user_id, d) ==
    TradeLoaded(op, _load_portfolio(store, user_id), user_id,
                Upper(Text(d[Key("currency")])), Text(d[Key("amount")]),
                Upper(Text(Get(d, Key("base"), <<"USD">>))))

\* mutant: the commands trade without asking for a login
cmd_trade_NoLogin(op, session, store, args) ==
    IF _parse_args(args, {Key("currency"), Key("amount")}).none
    THEN NoTrade("ok", "args", store)
    ELSE TradeParsed(op, store, session.current_user.user_id,
                     _parse_args(args, {Key("currency"), Key("amount")}).dict)

\* CLI.cmd_buy and CLI.cmd_sell, under catch_domain_errors
cmd_trade(op, session, store, args) ==
    IF session.current_user = NoUserRecord THEN NoTrade("ok", "login", store)
    ELSE IF _parse_args(args, {Key("currency"), Key("amount")}).none
    THEN NoTrade("ok", "args", store)
    ELSE TradeParsed(op, store, session.current_user.user_id,
                     _parse_args(args, {Key("currency"), Key("amount")}).dict)

\* str.lower on the command names that are written in upper case here
Lower(text) ==
    CASE text = "HELP" -> "help"
      [] text = "Buy" -> "buy"
      [] OTHER -> text

\* the keys of CLI.commands that have lines here
Commands == {"register", "login", "show-portfolio", "buy", "sell", "get-rate", "exit", "help"}

\* shlex.split(line): ValueError for a quote that is not closed
shlex_split(line) ==
    IF line.open_quote THEN [kind |-> "ValueError", parts |-> <<>>]
    ELSE [kind |-> "ok", parts |-> line.tokens]

----------------------------------------------------------------------------
(* State *)

NoCall ==
    [op |-> "none", svc |-> 0, code |-> "", amount |-> "", base |-> "",
     before |-> EmptyWallets,
     kind |-> "ok", reason |-> "", executed |-> FALSE, saved |-> FALSE,
     available |-> Zero, required |-> Zero, errcode |-> "", rate |-> 0,
     amount_float |-> Zero, returned |-> FALSE, result |-> NoResult,
     updated_at |-> NoTime, new_rates |-> EmptyRates, source |-> "", selection |-> "",
     fetched |-> NotAsked, broken |-> {},
     username |-> <<>>, password |-> <<>>, user |-> NoUserRecord, users |-> <<>>,
     rows |-> NoRows, total |-> Zero]

\* the record of a buy or sell: its inputs, the wallets of the service before
\* the call, and how it ended
Call(op, s, code, amount, base, o) ==
    [op |-> op, svc |-> s, code |-> code, amount |-> amount, base |-> base,
     before |-> svc[s].wallets,
     kind |-> o.kind, reason |-> o.reason, executed |-> o.executed,
     saved |-> o.saved, available |-> o.available, required |-> o.required,
     errcode |-> o.errcode, rate |-> o.rate, amount_float |-> o.amount_float,
     returned |-> o.returned, result |-> o.result,
     updated_at |-> NoTime, new_rates |-> EmptyRates, source |-> "", selection |-> "",
     fetched |-> NotAsked, broken |-> {},
     username |-> <<>>, password |-> <<>>, user |-> NoUserRecord, users |-> <<>>,
     rows |-> NoRows, total |-> Zero]

\* the fixture: user 1 holds 1 USD, 1 EUR and 1 BTC
SeedWallets == [c \in Registry |-> F(1)]

Init ==
    /\ now = 0
    /\ rates = [pairs |-> [k \in {} |-> 0], last_refresh |-> NoTime]
    /\ portfolios \in {<<>>, <<PortfolioRecord(1, SeedWallets)>>}
    /\ svc = [s \in Services |-> [user |-> NoUser, wallets |-> EmptyWallets]]
    /\ last = NoCall
    /\ clean = TRUE
    /\ history = <<>>
    /\ log = <<>>
    /\ disk = Stored(EmptyCache)
    /\ job = [p \in Threads |-> NoJob]
    /\ req = NoRequest
    /\ sched = NewScheduler
    /\ users = <<>>
    /\ cli = NewCLI

\* the balances explored stay within cap
WithinBound(w, cap) == \A c \in DOMAIN w : w[c].nan \/ w[c].v <= cap

\* time passes
Tick ==
    /\ now + TickSeconds <= MaxTicks * TickSeconds
    /\ now' = now + TickSeconds
    /\ last' = [NoCall EXCEPT !.op = "tick"]
    /\ UNCHANGED <<rates, portfolios, svc, clean>>
    /\ UNCHANGED serviceVars
    /\ UNCHANGED parserVars
    /\ UNCHANGED fileVars

\* time passes, by d seconds; the clock is observed at the multiples of the TTL
\* and one second before each of them
TickBy(d) ==
    /\ now + d <= MaxTicks * TickSeconds
    /\ (now + d) % RATES_TTL \in {0, RATES_TTL - 1}
    /\ now' = now + d
    /\ last' = [NoCall EXCEPT !.op = "tick"]
    /\ UNCHANGED <<rates, portfolios, svc, clean>>
    /\ UNCHANGED serviceVars
    /\ UNCHANGED parserVars
    /\ UNCHANGED fileVars

\* ParserStorage.save_current_rates(rates, source)
SaveCurrentRates(new_rates, source) ==
    /\ rates' = save_current_rates(rates, new_rates, source, now)
    /\ disk' = Stored(rates')
    /\ last' = [NoCall EXCEPT !.op = "save_current_rates"]
    /\ UNCHANGED <<now, portfolios, svc, clean, job>>
    /\ UNCHANGED serviceVars
    /\ UNCHANGED parserVars

\* PortfolioService(user): __init__ and _load_portfolio
NewService(s, user_id) ==
    LET i == IndexOf(portfolios, user_id) IN
    /\ IF i # 0
       THEN /\ svc' = IF FromDictOk(portfolios[i])
                      THEN [svc EXCEPT ![s] = [user |-> user_id, wallets |-> portfolios[i].wallets]]
                      ELSE svc
            /\ portfolios' = portfolios
            /\ last' = [NoCall EXCEPT !.op = "new", !.svc = s,
                           !.kind = IF FromDictOk(portfolios[i]) THEN "ok" ELSE "ValueError"]
       ELSE /\ svc' = [svc EXCEPT ![s] = [user |-> user_id, wallets |-> EmptyWallets]]
            /\ portfolios' = Append(portfolios, PortfolioRecord(user_id, EmptyWallets))
            /\ last' = [NoCall EXCEPT !.op = "new", !.svc = s, !.saved = TRUE]
    /\ UNCHANGED <<now, rates, clean>>
    /\ UNCHANGED serviceVars
    /\ UNCHANGED parserVars
    /\ UNCHANGED fileVars

\* the step of a buy or sell call of service s that ended as o
Traded(op, s, currency_code, amount, base_currency, cap, o) ==
    /\ svc[s].user # NoUser
    /\ WithinBound(o.wallets, cap)
    /\ svc' = [svc EXCEPT ![s].wallets = o.wallets]
    /\ portfolios' = o.store
    /\ last' = Call(op, s, currency_code, amount, base_currency, o)
    /\ clean' = (clean /\ o.returned)
    /\ UNCHANGED <<now, rates>>
    /\ UNCHANGED serviceVars
    /\ UNCHANGED parserVars
    /\ UNCHANGED fileVars

\* service s runs buy_currency(currency_code, amount, base_currency)
Buy(s, currency_code, amount, base_currency, cap) ==
    Traded("buy", s, currency_code, amount, base_currency, cap,
           buy_currency(svc[s].wallets, portfolios, svc[s].user, currency_code, amount,
                        base_currency))

\* service s runs sell_currency(currency_code, amount, base_currency)
Sell(s, currency_code, amount, base_currency, cap) ==
    Traded("sell", s, currency_code, amount, base_currency, cap,
           sell_currency(svc[s].wallets, portfolios, svc[s].user, currency_code, amount,
                         base_currency))

\* the step of a get_rate call that ended as g
RateAsked(from_code, to_code, g) ==
    /\ last' = [NoCall EXCEPT !.op = "get_rate", !.code = from_code, !.base = to_code,
                   !.kind = g.kind, !.reason = g.reason, !.returned = g.returned,
                   !.rate = g.rate, !.updated_at = g.updated_at, !.errcode = g.errcode]
    /\ UNCHANGED <<now, rates, portfolios, svc, clean>>
    /\ UNCHANGED serviceVars
    /\ UNCHANGED parserVars
    /\ UNCHANGED fileVars

\* RateService.get_rate(from_code, to_code) is called
GetRate(from_code, to_code) == RateAsked(from_code, to_code, get_rate(from_code, to_code))

\* the step of a run_update call whose loop ended as u
Updated(u) ==
    /\ Len(u.log) <= MaxAppends
    /\ history' = u.history
    /\ log' = u.log
    /\ rates' = IF DOMAIN u.all_rates # {}
                THEN save_current_rates(rates, u.all_rates,
                                        JoinSources(u.successful_sources), now)
                ELSE rates
    /\ last' = [NoCall EXCEPT !.op = "run_update", !.saved = DOMAIN u.all_rates # {},
                   !.new_rates = u.all_rates, !.returned = TRUE,
                   !.selection = u.selection, !.fetched = u.fetched,
                   !.broken = u.broken,
                   !.source = JoinSources(u.successful_sources)]
    /\ disk' = Stored(rates')
    /\ UNCHANGED <<now, portfolios, svc, clean, job>>
    /\ UNCHANGED serviceVars

\* RatesUpdater.run_update(source), the providers answering with responses and
\* the history writes of the pairs in broken raising
RunUpdate(source, responses, broken) ==
    Updated(run_update(source, responses, broken, history, log, now))

\* save_current_rates of thread p up to the merge: the cache is loaded and
\* the new pairs are put into it
LoadCache(p, new_rates, source) ==
    /\ job[p].pc = "idle"
    /\ job' = [job EXCEPT ![p] = [NoJob EXCEPT !.pc = "loaded", !.new_rates = new_rates,
                  !.cache = save_current_rates(load_rates_cache(disk), new_rates, source, now)]]
    /\ last' = [NoCall EXCEPT !.op = "load_cache"]
    /\ UNCHANGED <<now, rates, portfolios, svc, clean, disk>>
    /\ UNCHANGED serviceVars
    /\ UNCHANGED parserVars

\* _save_json of thread p: open(tmp, "w") creates or truncates the file
OpenTmp(p) ==
    /\ job[p].pc = "loaded"
    /\ disk' = [disk EXCEPT !.tmp_exists = TRUE, !.tmp = <<>>]
    /\ job' = [job EXCEPT ![p].pc = "writing", ![p].fd = "tmp", ![p].pos = 0]
    /\ last' = [NoCall EXCEPT !.op = "open_tmp"]
    /\ UNCHANGED <<now, rates, portfolios, svc, clean>>
    /\ UNCHANGED serviceVars
    /\ UNCHANGED parserVars

\* _save_json of thread p: json.dump writes its next chunk to the open file,
\* which is still named tmp or was renamed to path by the other thread
WriteChunk(p) ==
    /\ job[p].pc = "writing"
    /\ job[p].pos < FileChunks
    /\ disk' = IF job[p].fd = "tmp"
               THEN [disk EXCEPT !.tmp = WriteAt(disk.tmp, job[p].pos,
                                                 Encode(job[p].cache)[job[p].pos + 1])]
               ELSE [disk EXCEPT !.path = WriteAt(disk.path, job[p].pos,
                                                  Encode(job[p].cache)[job[p].pos + 1])]
    /\ rates' = load_rates_cache(disk')
    /\ job' = [job EXCEPT ![p].pos = job[p].pos + 1]
    /\ last' = [NoCall EXCEPT !.op = "write_chunk"]
    /\ UNCHANGED <<now, portfolios, svc, clean>>
    /\ UNCHANGED serviceVars
    /\ UNCHANGED parserVars

\* _save_json of thread p: the file is closed and os.replace(tmp, path) renames
\* it, or raises FileNotFoundError where no file is named tmp
Replace(p) ==
    /\ job[p].pc = "writing"
    /\ job[p].pos = FileChunks
    /\ IF disk.tmp_exists
       THEN /\ disk' = [path |-> disk.tmp, tmp_exists |-> FALSE, tmp |-> <<>>]
            /\ job' = [q \in Threads |->
                         IF q = p THEN [job[q] EXCEPT !.pc = "done", !.fd = ""]
                         ELSE IF job[q].fd = "tmp" THEN [job[q] EXCEPT !.fd = "path"]
                         ELSE job[q]]
            /\ last' = [NoCall EXCEPT !.op = "replace"]
       ELSE /\ disk' = disk
            /\ job' = [job EXCEPT ![p].pc = "failed", ![p].fd = ""]
            /\ last' = [NoCall EXCEPT !.op = "replace", !.kind = "FileNotFoundError"]
    /\ rates' = load_rates_cache(disk')
    /\ UNCHANGED <<now, portfolios, svc, clean>>
    /\ UNCHANGED serviceVars
    /\ UNCHANGED parserVars

\* a provider client starts _make_request
StartRequest(client) ==
    /\ req.pc # "trying"
    /\ REQUEST_RETRIES > 0
    /\ now + MaxPause <= MaxTicks * TickSeconds
    /\ req' = [NoRequest EXCEPT !.pc = "trying", !.client = client]
    /\ last' = [NoCall EXCEPT !.op = "start_request"]
    /\ UNCHANGED <<now, rates, portfolios, svc, clean, sched, users, cli>>
    /\ UNCHANGED parserVars
    /\ UNCHANGED fileVars

\* the step of an iteration of _make_request that left the request as r2
Attempted(r2) ==
    /\ req' = r2
    /\ now' = now + Slept(req, r2)
    /\ last' = [NoCall EXCEPT !.op = "attempt",
                   !.kind = IF r2.pc = "raised" THEN r2.kind ELSE "ok"]
    /\ UNCHANGED <<rates, portfolios, svc, clean, sched, users, cli>>
    /\ UNCHANGED parserVars
    /\ UNCHANGED fileVars

\* one iteration of the loop of _make_request
Attempt(outcome) ==
    /\ req.pc = "trying"
    /\ Attempted(attempt_(req, outcome))

\* Scheduler.start()
Start ==
    /\ sched.caller = "ready"
    /\ is_running(sched) \/ \E t \in ThreadIds : sched.loops[t].pc = "unborn"
    /\ sched' = start_(sched)
    /\ last' = [NoCall EXCEPT !.op = "start",
                   !.reason = IF is_running(sched) THEN "already running" ELSE ""]
    /\ UNCHANGED <<now, rates, portfolios, svc, clean, req, users, cli>>
    /\ UNCHANGED parserVars
    /\ UNCHANGED fileVars

\* Scheduler.stop() while not running: it returns at once
StopIdle ==
    /\ sched.caller = "ready"
    /\ ~is_running(sched)
    /\ last' = [NoCall EXCEPT !.op = "stop", !.reason = "not running"]
    /\ UNCHANGED <<now, rates, portfolios, svc, clean, req, sched, users, cli>>
    /\ UNCHANGED parserVars
    /\ UNCHANGED fileVars

\* Scheduler.stop() while running, up to its join
StopSet ==
    /\ sched.caller = "ready"
    /\ is_running(sched)
    /\ sched' = stop_set(sched)
    /\ last' = [NoCall EXCEPT !.op = "stop_set"]
    /\ UNCHANGED <<now, rates, portfolios, svc, clean, req, users, cli>>
    /\ UNCHANGED parserVars
    /\ UNCHANGED fileVars

\* Scheduler.stop(): join(timeout=3) returns, the thread having ended or
\* being busy for longer than the three seconds
StopJoined ==
    /\ sched.caller = "joining"
    /\ ~Alive(sched.loops[sched.thread]) \/ Busy(sched.loops[sched.thread])
    /\ sched' = stop_joined(sched)
    /\ last' = [NoCall EXCEPT !.op = "stop_joined",
                   !.reason = IF Alive(sched.loops[sched.thread]) THEN "timeout" ELSE ""]
    /\ UNCHANGED <<now, rates, portfolios, svc, clean, req, users, cli>>
    /\ UNCHANGED parserVars
    /\ UNCHANGED fileVars

\* _run_loop of thread t evaluates its while condition
LoopTop(t) ==
    /\ sched.loops[t].pc = "top"
    /\ sched' = loop_top(sched, t)
    /\ last' = [NoCall EXCEPT !.op = "loop_top", !.svc = t]
    /\ UNCHANGED <<now, rates, portfolios, svc, clean, req, users, cli>>
    /\ UNCHANGED parserVars
    /\ UNCHANGED fileVars

\* the step of thread t that ran run_update with the loop ending as u; where
\* commit_fails, save_current_rates raises and run_update with it
LoopIngested(t, u, commit_fails) ==
    /\ Len(u.log) <= MaxAppends
    /\ commit_fails => DOMAIN u.all_rates # {}
    /\ history' = u.history
    /\ log' = u.log
    /\ rates' = IF DOMAIN u.all_rates # {} /\ ~commit_fails
                THEN save_current_rates(rates, u.all_rates,
                                        JoinSources(u.successful_sources), now)
                ELSE rates
    /\ disk' = Stored(rates')
    /\ sched' = loop_ingested(sched, t, commit_fails)
    /\ last' = [NoCall EXCEPT !.op = "loop_ingest", !.svc = t,
                   !.kind = IF commit_fails THEN "Exception" ELSE "ok"]
    /\ UNCHANGED <<now, portfolios, svc, clean, job, req, users, cli>>

\* _run_loop of thread t runs self.updater.run_update()
LoopIngest(t, responses, commit_fails) ==
    /\ sched.loops[t].pc = "ingest"
    /\ LoopIngested(t, run_update(NoSource, responses, {}, history, log, now), commit_fails)

\* _run_loop of thread t ends its pause after an error
LoopCooldown(t) ==
    /\ sched.loops[t].pc = "cooldown"
    /\ sched' = loop_cooled(sched, t)
    /\ last' = [NoCall EXCEPT !.op = "loop_cooldown", !.svc = t]
    /\ UNCHANGED <<now, rates, portfolios, svc, clean, req, users, cli>>
    /\ UNCHANGED parserVars
    /\ UNCHANGED fileVars

\* _run_loop of thread t makes one round of its wait
LoopPoll(t) ==
    /\ sched.loops[t].pc = "wait"
    /\ sched' = loop_poll(sched, t)
    /\ last' = [NoCall EXCEPT !.op = "loop_poll", !.svc = t]
    /\ UNCHANGED <<now, rates, portfolios, svc, clean, req, users, cli>>
    /\ UNCHANGED parserVars
    /\ UNCHANGED fileVars

\* the step that ends a register call as r
RegisterEnded(username, password, r) ==
    /\ r.kind = "ok" => Len(users) < MaxUsers
    /\ users' = r.users
    /\ portfolios' = r.portfolios
    /\ last' = [NoCall EXCEPT !.op = "register", !.kind = r.kind, !.reason = r.reason,
                   !.username = username, !.password = password, !.user = r.user,
                   !.returned = (r.kind = "ok"), !.users = users]
    /\ UNCHANGED <<now, rates, svc, clean, req, sched, cli>>
    /\ UNCHANGED parserVars
    /\ UNCHANGED fileVars

\* UserService.register(username, password)
Register(username, password, salt) ==
    RegisterEnded(username, password,
                  register(users, portfolios, username, password, salt, now))

\* the step that ends cmd_login, the use case having ended as r
LoggedIn(username, password, r) ==
    /\ cli' = IF r.kind = "ok"
              THEN [cli EXCEPT !.current_user = r.user, !.password = password]
              ELSE cli
    /\ last' = [NoCall EXCEPT !.op = "login", !.kind = r.kind, !.reason = r.reason,
                   !.username = username, !.password = password,
                   !.returned = (r.kind = "ok")]
    /\ UNCHANGED <<now, rates, portfolios, svc, clean, req, sched, users>>
    /\ UNCHANGED parserVars
    /\ UNCHANGED fileVars

\* cmd_login with arguments that parse
LoginParsed(d) ==
    LoggedIn(d[Key("username")], d[Key("password")],
             login(users, d[Key("username")], d[Key("password")]))

\* CLI.cmd_login(args), under catch_domain_errors
CmdLogin(args) ==
    /\ cli.alive
    /\ IF _parse_args(args, {Key("username"), Key("password")}).none
       THEN /\ last' = [NoCall EXCEPT !.op = "login", !.reason = "args"]
            /\ UNCHANGED <<now, rates, portfolios, svc, clean, req, sched, users, cli>>
            /\ UNCHANGED parserVars
            /\ UNCHANGED fileVars
       ELSE LoginParsed(_parse_args(args, {Key("username"), Key("password")}).dict)

\* the step that ends change_password as r
PasswordChanged(new_password, r) ==
    /\ cli' = [cli EXCEPT !.current_user = r.user,
                          !.password = IF r.kind = "ok" THEN new_password ELSE @]
    /\ last' = [NoCall EXCEPT !.op = "change_password", !.kind = r.kind,
                   !.password = new_password, !.user = cli.current_user]
    /\ UNCHANGED <<now, rates, portfolios, svc, clean, req, sched, users>>
    /\ UNCHANGED parserVars
    /\ UNCHANGED fileVars

\* User.change_password(new_password) on the session's user object
ChangePassword(new_password) ==
    /\ cli.current_user # NoUserRecord
    /\ PasswordChanged(new_password, change_password(cli.current_user, new_password))

\* the step that ends cmd_show_portfolio as r
PortfolioShown(r) ==
    /\ portfolios' = r.store
    /\ last' = [NoCall EXCEPT !.op = "show-portfolio", !.kind = r.kind, !.reason = r.reason,
                   !.base = r.base, !.rows = r.rows, !.total = r.total,
                   !.returned = (r.kind = "ok" /\ r.reason = "")]
    /\ UNCHANGED <<now, rates, svc, clean>>
    /\ UNCHANGED serviceVars
    /\ UNCHANGED parserVars
    /\ UNCHANGED fileVars

\* CLI.cmd_show_portfolio(args)
CmdShowPortfolio(args) ==
    /\ cli.alive
    /\ PortfolioShown(cmd_show_portfolio(cli, portfolios, args))

\* a command that only prints
Said(op, kind, reason) ==
    /\ last' = [NoCall EXCEPT !.op = op, !.kind = kind, !.reason = reason]
    /\ UNCHANGED <<now, rates, portfolios, svc, clean>>
    /\ UNCHANGED serviceVars
    /\ UNCHANGED parserVars
    /\ UNCHANGED fileVars

\* CLI.cmd_register(args), under catch_domain_errors
CmdRegister(args, salt) ==
    /\ cli.alive
    /\ IF _parse_args(args, {Key("username"), Key("password")}).none
       THEN Said("register", "ok", "args")
       ELSE Register(_parse_args(args, {Key("username"), Key("password")}).dict[Key("username")],
                     _parse_args(args, {Key("username"), Key("password")}).dict[Key("password")],
                     salt)

\* the step that ends cmd_buy or cmd_sell as o
CmdTraded(op, o) ==
    /\ WithinBound(o.wallets, MaxBalance)
    /\ portfolios' = o.store
    /\ last' = [NoCall EXCEPT !.op = op, !.kind = o.kind, !.reason = o.reason,
                   !.executed = o.executed, !.saved = o.saved, !.returned = o.returned,
                   !.result = o.result]
    /\ UNCHANGED <<now, rates, svc, clean>>
    /\ UNCHANGED serviceVars
    /\ UNCHANGED parserVars
    /\ UNCHANGED fileVars

\* CLI.cmd_buy(args) and CLI.cmd_sell(args)
CmdTrade(op, args) ==
    /\ cli.alive
    /\ CmdTraded(op, cmd_trade(op, cli, portfolios, args))

\* the step that ends cmd_get_rate, get_rate having ended as g
CmdRateAsked(g) == Said("get-rate", g.kind, g.reason)

\* CLI.cmd_get_rate(args), under catch_domain_errors
CmdGetRate(args) ==
    /\ cli.alive
    /\ IF _parse_args(args, {Key("from"), Key("to")}).none
       THEN Said("get-rate", "ok", "args")
       ELSE CmdRateAsked(get_rate(
                Upper(Text(_parse_args(args, {Key("from"), Key("to")}).dict[Key("from")])),
                Upper(Text(_parse_args(args, {Key("from"), Key("to")}).dict[Key("to")]))))

\* CLI.cmd_help(args)
CmdHelp == cli.alive /\ Said("help", "ok", "")

\* the loop of CLI.run is left
Left(op, kind) ==
    /\ cli' = [cli EXCEPT !.alive = FALSE]
    /\ last' = [NoCall EXCEPT !.op = op, !.kind = kind]
    /\ UNCHANGED <<now, rates, portfolios, svc, clean, req, sched, users>>
    /\ UNCHANGED parserVars
    /\ UNCHANGED fileVars

\* CLI.cmd_exit(args), no scheduler running: sys.exit(0) ends the process
CmdExit ==
    /\ cli.alive
    /\ ~is_running(sched)
    /\ Left("exit", "SystemExit")

\* CLI.run: input() raises EOFError
EndOfInput == cli.alive /\ Left("eof", "EOFError")

\* CLI.run: input() raises KeyboardInterrupt
Interrupt == cli.alive /\ Left("interrupt", "KeyboardInterrupt")

\* CLI.run with the parts of a line: the command is looked up and called
Dispatch(cmd, args) ==
    \/ cmd = "register" /\ \E salt \in Salts : CmdRegister(args, salt)
    \/ cmd = "login" /\ CmdLogin(args)
    \/ cmd = "show-portfolio" /\ CmdShowPortfolio(args)
    \/ cmd \in {"buy", "sell"} /\ CmdTrade(cmd, args)
    \/ cmd = "get-rate" /\ CmdGetRate(args)
    \/ cmd = "help" /\ CmdHelp
    \/ cmd = "exit" /\ CmdExit
    \/ cmd \notin Commands /\ Said("unknown", "ok", "")

\* CLI.run reads one line: an empty line is skipped, a line shlex cannot
\* split raises ValueError out of the loop
ReadLine(line) ==
    /\ cli.alive
    /\ IF line.tokens = <<>> /\ ~line.open_quote THEN Said("blank", "ok", "")
       ELSE IF shlex_split(line).kind # "ok" THEN Left("line", shlex_split(line).kind)
       ELSE Dispatch(Lower(Text(Head(shlex_split(line).parts))),
                     Tail(shlex_split(line).parts))

DirectAmounts == {F(-1), F(0), F(1)}
DirectCodes == {"USD"}

\* Wallet.deposit(amount) on a wallet of service s's portfolio
Deposit(s, code, amount) ==
    LET o == deposit(svc[s].wallets, code, amount) IN
    /\ svc[s].user # NoUser
    /\ code \in DOMAIN svc[s].wallets
    /\ WithinBound(o.wallets, MaxBalance)
    /\ svc' = [svc EXCEPT ![s].wallets = o.wallets]
    /\ last' = [NoCall EXCEPT !.op = "deposit", !.svc = s, !.code = code,
                   !.kind = o.kind, !.amount_float = amount]
    /\ clean' = FALSE
    /\ UNCHANGED <<now, rates, portfolios>>
    /\ UNCHANGED serviceVars
    /\ UNCHANGED parserVars
    /\ UNCHANGED fileVars

\* Wallet.withdraw(amount) on a wallet of service s's portfolio
Withdraw(s, code, amount) ==
    LET o == withdraw(svc[s].wallets, code, amount) IN
    /\ svc[s].user # NoUser
    /\ code \in DOMAIN svc[s].wallets
    /\ svc' = [svc EXCEPT ![s].wallets = o.wallets]
    /\ last' = [NoCall EXCEPT !.op = "withdraw", !.svc = s, !.code = code,
                   !.kind = o.kind, !.amount_float = amount,
                   !.available = IF o.kind = "InsufficientFundsError"
                                 THEN svc[s].wallets[code] ELSE Zero,
                   !.required = IF o.kind = "InsufficientFundsError" THEN amount ELSE Zero,
                   !.errcode = IF o.kind = "InsufficientFundsError" THEN code ELSE ""]
    /\ clean' = FALSE
    /\ UNCHANGED <<now, rates, portfolios>>
    /\ UNCHANGED serviceVars
    /\ UNCHANGED parserVars
    /\ UNCHANGED fileVars

RateMaps == UNION {[S -> RateValues] : S \in (SUBSET PairKeys) \ {{}}}
InputCodes == {"BTC", UnknownCode}
InputBases == {BASE_CURRENCY}

\* one PortfolioService; its wallets are also used directly
Next ==
    \/ Tick
    \/ \E m \in RateMaps, src \in Sources : SaveCurrentRates(m, src)
    \/ \E u \in UserIds : NewService(1, u)
    \/ \E c \in InputCodes, a \in AmountStrings, b \in InputBases : Buy(1, c, a, b, MaxBalance)
    \/ \E c \in InputCodes, a \in AmountStrings, b \in InputBases : Sell(1, c, a, b, MaxBalance)
    \/ \E c \in DirectCodes, a \in DirectAmounts : Deposit(1, c, a)
    \/ \E c \in DirectCodes, a \in DirectAmounts : Withdraw(1, c, a)
    \/ \E c \in InputCodes, b \in InputBases : GetRate(c, b)

Spec == Init /\ [][Next]_vars

\* several PortfolioService objects of the same user, trading with valid amounts
SharedAmounts == {"1", "2"}

NextShared ==
    \/ Tick
    \/ \E m \in RateMaps, src \in Sources : SaveCurrentRates(m, src)
    \/ \E s \in Services, u \in UserIds : NewService(s, u)
    \/ \E s \in Services, c \in InputCodes, a \in SharedAmounts, b \in InputBases : Buy(s, c, a, b, MaxBalance)
    \/ \E s \in Services, c \in InputCodes, a \in SharedAmounts, b \in InputBases : Sell(s, c, a, b, MaxBalance)

SpecShared == Init /\ [][NextShared]_vars

\* one PortfolioService trading with valid amounts at positive rates, over a
\* range of balances wide enough for float sums to round
PositiveRateMaps == {m \in RateMaps : \A k \in DOMAIN m : m[k] > 0}

\* the clock advances by a second or by a second less than the TTL
ClockSteps == {1, RATES_TTL - 1}

NextTrade ==
    \/ \E d \in ClockSteps : TickBy(d)
    \/ \E m \in PositiveRateMaps, src \in Sources : SaveCurrentRates(m, src)
    \/ \E u \in UserIds : NewService(1, u)
    \/ \E c \in InputCodes, a \in SharedAmounts, b \in InputBases :
          Buy(1, c, a, b, MaxTradeBalance)
    \/ \E c \in InputCodes, a \in SharedAmounts, b \in InputBases :
          Sell(1, c, a, b, MaxTradeBalance)
    \/ \E c \in InputCodes, b \in InputBases : GetRate(c, b)

SpecTrade == Init /\ [][NextTrade]_vars


UpdateSources == {NoSource, "coingecko", "exchangerate", "other"}
\* the answers of providers that are reached: every value they may give
ProviderResponses ==
    [coingecko : Responses(CRYPTO_CURRENCIES, Quotes, {}),
     exchangerate : Responses(FIAT_CURRENCIES, ConversionValues, {"nokey"})]

\* the answers of providers that may fail, with ApiRequestError or otherwise
AllProviderResponses ==
    [coingecko : Responses(CRYPTO_CURRENCIES, {1}, FailureKinds),
     exchangerate : Responses(FIAT_CURRENCIES, {1}, FailureKinds \cup {"nokey"})]

\* the pairs whose history write raises during one run: none or one
BrokenWrites == {{}} \cup {{k} : k \in IngestKeys}

\* the parser service starts with the stores of a fresh installation
InitParser == Init /\ portfolios = <<>>

\* the parser service alone: updates of the rates as time passes
NextIngest ==
    \/ Tick
    \/ \E source \in UpdateSources, responses \in ProviderResponses :
          RunUpdate(source, responses, {})

SpecIngest == InitParser /\ [][NextIngest]_vars

\* the updates alone, with every way a provider or a history write can fail
NextUpdate ==
    \E source \in UpdateSources, responses \in AllProviderResponses,
       broken \in BrokenWrites :
       RunUpdate(source, responses, broken)

SpecUpdate == InitParser /\ [][NextUpdate]_vars


SaverRateMaps == UNION {[S -> {1, 2}] : S \in (SUBSET IngestKeys) \ {{}}}

\* the update-rates command and the scheduler each save the rates once
NextConcurrent ==
    \/ \E p \in Threads, m \in SaverRateMaps, src \in Sources : LoadCache(p, m, src)
    \/ \E p \in Threads : OpenTmp(p)
    \/ \E p \in Threads : WriteChunk(p)
    \/ \E p \in Threads : Replace(p)

SpecConcurrent == Init /\ [][NextConcurrent]_vars


\* the requests of the provider clients, one after the other
NextRequest ==
    \/ \E client \in {SourceNames[1], SourceNames[2]} : StartRequest(client)
    \/ \E outcome \in AttemptOutcomes : Attempt(outcome)

\* a request that has started goes on: the loop of _make_request is not stopped
SpecRequest ==
    InitParser /\ [][NextRequest]_vars /\ WF_vars(\E outcome \in AttemptOutcomes : Attempt(outcome))


\* what the providers answer to the scheduler's runs: nothing, or one rate
LoopResponses ==
    {[coingecko |-> [status |-> "error", data |-> EmptyRates],
      exchangerate |-> [status |-> "nokey", data |-> EmptyRates]],
     [coingecko |-> [status |-> "ok", data |-> [c \in CRYPTO_CURRENCIES |-> 1]],
      exchangerate |-> [status |-> "nokey", data |-> EmptyRates]]}

\* the steps of loop thread t
LoopStep(t) ==
    \/ LoopTop(t)
    \/ \E responses \in LoopResponses, commit_fails \in BOOLEAN :
          LoopIngest(t, responses, commit_fails)
    \/ LoopCooldown(t)
    \/ LoopPoll(t)

\* the scheduler: its caller and its loop threads
NextScheduler ==
    \/ Start
    \/ StopIdle
    \/ StopSet
    \/ StopJoined
    \/ \E t \in ThreadIds : LoopStep(t)

\* a loop thread that can take a step takes one
SpecScheduler ==
    InitParser /\ [][NextScheduler]_vars /\ \A t \in ThreadIds : WF_vars(LoopStep(t))


\* the command lines of a login: well formed, and three that are not
LoginLines ==
    {<<Key("username"), u, Key("password"), p>> : u \in Usernames, p \in Passwords}
    \cup {<<Key("username"), <<"a">>>>,
          <<<<"a">>, <<"p", "w", "d", "1">>>>,
          <<Key("username"), Key("password"), <<"p", "w", "d", "1">>>>}

\* the user service: registrations, logins, changes of password
NextUsers ==
    \/ \E username \in Usernames, password \in Passwords, salt \in Salts :
          Register(username, password, salt)
    \/ \E args \in LoginLines : CmdLogin(args)
    \/ \E new_password \in Passwords : ChangePassword(new_password)

SpecUsers == InitParser /\ [][NextUsers]_vars


\* a users store and a portfolios store to start from: users who hold funds
SeedUser(user_id, username) == UserRecord(user_id, username, <<"p", "w", "d", "1">>, "s1", 0)

LedgerSeeds ==
    {[users |-> <<SeedUser(1, <<"a">>)>>,
      portfolios |-> <<PortfolioRecord(1, SeedWallets)>>],
     [users |-> <<SeedUser(1, <<"a">>), SeedUser(2, <<"b">>)>>,
      portfolios |-> <<PortfolioRecord(1, SeedWallets), PortfolioRecord(2, SeedWallets)>>]}

InitLedger ==
    /\ now = 0
    /\ rates = [pairs |-> [k \in {} |-> 0], last_refresh |-> NoTime]
    /\ \E seed \in LedgerSeeds : users = seed.users /\ portfolios = seed.portfolios
    /\ svc = [s \in Services |-> [user |-> NoUser, wallets |-> EmptyWallets]]
    /\ last = NoCall
    /\ clean = TRUE
    /\ history = <<>>
    /\ log = <<>>
    /\ disk = Stored(EmptyCache)
    /\ job = [p \in Threads |-> NoJob]
    /\ req = NoRequest
    /\ sched = NewScheduler
    /\ cli = NewCLI

LedgerNames == {<<"b">>, <<"c">>}
LedgerCodes == {"BTC", "btc"}
LedgerBases == {"USD", "usd"}
LedgerAmounts == {"1"}
LedgerRates == [k \in PairKeys |-> 1]

\* users registering and trading, each through PortfolioService objects
NextLedger ==
    \/ \E username \in LedgerNames : Register(username, <<"p", "w", "d", "1">>, "s1")
    \/ SaveCurrentRates(LedgerRates, "coingecko")
    \/ \E s \in Services, i \in 1..Len(users) : NewService(s, users[i].user_id)
    \/ \E s \in Services, c \in LedgerCodes, a \in LedgerAmounts, b \in LedgerBases :
          Buy(s, c, a, b, MaxBalance)
    \/ \E s \in Services, c \in LedgerCodes, a \in LedgerAmounts, b \in LedgerBases :
          Sell(s, c, a, b, MaxBalance)

SpecLedger == InitLedger /\ [][NextLedger]_vars


\* the lines typed in a session
Line(tokens) == [tokens |-> tokens, open_quote |-> FALSE]
Pwd1 == <<"p", "w", "d", "1">>
SessionLines ==
    {Line(<<>>),
     [tokens |-> <<<<"login">>, Key("username"), <<"a">>>>, open_quote |-> TRUE],
     Line(<<<<"login">>, Key("username"), <<"a">>, Key("password"), Pwd1>>),
     Line(<<<<"login">>, Key("username"), <<"a">>, Key("password"), <<"p", "w", "d", "2">>>>),
     Line(<<<<"login">>, Key("username"), <<"c">>, Key("password"), Pwd1>>),
     Line(<<<<"login">>, Key("username"), <<"b">>, Key("password"), Pwd1>>),
     Line(<<<<"login">>, Key("username"), <<"a">>>>),
     Line(<<<<"register">>, Key("username"), <<"b">>, Key("password"), Pwd1>>),
     Line(<<<<"register">>, Key("username"), <<"b">>, Key("password"), <<"p", "w", "d">>>>),
     Line(<<<<"register">>, <<"b">>>>),
     Line(<<<<"show-portfolio">>>>),
     Line(<<<<"show-portfolio">>, Key("base"), <<"btc">>>>),
     Line(<<<<"show-portfolio">>, <<"usd">>>>),
     Line(<<<<"Buy">>, Key("currency"), <<"btc">>, Key("amount"), <<"1">>>>),
     Line(<<<<"buy">>, Key("currency"), <<"BTC">>>>),
     Line(<<<<"sell">>, Key("currency"), <<"BTC">>, Key("amount"), <<"1">>, Key("base"), <<"usd">>>>),
     Line(<<<<"sell">>, Key("currency"), <<"BTC">>, Key("amount"), <<"abc">>>>),
     Line(<<<<"get-rate">>, Key("from"), <<"btc">>, Key("to"), <<"USD">>>>),
     Line(<<<<"get-rate">>, Key("from")>>),
     Line(<<<<"HELP">>>>),
     Line(<<<<"exit">>>>),
     Line(<<<<"quit">>>>)}

SessionRateMaps == {[k \in PairKeys |-> v] : v \in {-1, 0, 1}}

\* one command session over stores that hold funded users
NextSession ==
    \/ Tick
    \/ \E m \in SessionRateMaps : SaveCurrentRates(m, "coingecko")
    \/ \E line \in SessionLines : ReadLine(line)
    \/ EndOfInput
    \/ Interrupt

SpecSession == InitLedger /\ [][NextSession]_vars

----------------------------------------------------------------------------
(* Vocabulary of the properties *)

Trades == {"buy", "sell"}

\* the balance of currency c in wallets w; a currency never held counts as 0
Bal(w, c) == IF c \in DOMAIN w THEN w[c] ELSE Zero

\* the stored wallets of a user
Persisted(store, user_id) ==
    IF \E i \in 1..Len(store) : store[i].user_id = user_id
    THEN store[CHOOSE i \in 1..Len(store) : store[i].user_id = user_id].wallets
    ELSE EmptyWallets

\* the cache holds an entry for (from, to) aged less than the TTL
HasFreshEntry(from_cur, to_cur) ==
    /\ <<from_cur, to_cur>> \in DOMAIN rates.pairs
    /\ now - rates.pairs[<<from_cur, to_cur>>].updated_at < RATES_TTL

\* the rate of the cached entry (from, to), 0 when there is none
EntryRate(from_cur, to_cur) ==
    IF <<from_cur, to_cur>> \in DOMAIN rates.pairs
    THEN rates.pairs[<<from_cur, to_cur>>].rate ELSE 0

\* the number an amount string denotes (0 for the strings that denote none)
Num(amount) == CASE amount = "1" -> 1 [] amount = "2" -> 2 [] OTHER -> 0

\* the step is a buy or sell call with a positive amount, a known currency and
\* a fresh cached entry with a positive rate
TradeAtFreshRate ==
    /\ last'.op \in Trades
    /\ Num(last'.amount) > 0
    /\ last'.code \in Registry
    /\ HasFreshEntry(last'.code, last'.base)
    /\ EntryRate(last'.code, last'.base) > 0

\* wallets debited and credited by the call, and the amounts
DebitCode(c) == IF c.op = "buy" THEN c.base ELSE c.code
CreditCode(c) == IF c.op = "buy" THEN c.code ELSE c.base

----------------------------------------------------------------------------
(* C1: after any sequence of deposit, withdraw, buy and sell calls, every   *)
(* wallet balance, in memory and in the stored portfolios, is >= 0.         *)
C1_BalancesNonNegative ==
    /\ \A s \in Services : \A c \in DOMAIN svc[s].wallets : FLe(Zero, svc[s].wallets[c])
    /\ \A i \in 1..Len(portfolios) :
          \A c \in DOMAIN portfolios[i].wallets : FLe(Zero, portfolios[i].wallets[c])

(* C2: a buy or sell changes a wallet or writes the portfolio store only if *)
(* the cache holds an entry for (currency, base) aged less than the TTL at  *)
(* the lookup; with the entry absent or stale the call fails and the        *)
(* wallets and the stored portfolios stay as they were.                     *)
C2_TradeGatedOnFreshRate ==
    [][last'.op \in Trades =>
        LET fresh == HasFreshEntry(last'.code, last'.base) IN
        /\ (svc' # svc \/ portfolios' # portfolios \/ last'.saved) => fresh
        /\ ~fresh => /\ last'.kind # "ok"
                     /\ ~last'.returned
                     /\ ~last'.saved
                     /\ svc' = svc
                     /\ portfolios' = portfolios]_vars

\* a buy with enough funds was refused because the entry was stale
C2_Witness ==
    /\ last.op = "buy"
    /\ last.reason = "stale"
    /\ last.amount = "1"
    /\ EntryRate("BTC", "USD") = 1
    /\ svc[last.svc].wallets = SeedWallets
    /\ portfolios = <<PortfolioRecord(1, SeedWallets)>>

(* C3: a trade on a pair with no cached entry fails with the error kind     *)
(* RateUnavailable, a trade on a pair whose entry is not fresh with the     *)
(* distinct error kind RateStale.                                           *)
C3_DistinctRateErrorKinds ==
    last.op \in Trades =>
        /\ last.reason = "unavailable" => last.kind = "RateUnavailable"
        /\ last.reason = "stale" => last.kind = "RateStale"

(* C4: at a fresh rate r, a buy of a with base balance < a*r and a sell of  *)
(* a with target balance < a fail with InsufficientFunds carrying the debit *)
(* wallet's balance, the required amount and the debit wallet's currency;   *)
(* no balance changes and nothing is stored.  A balance equal to the        *)
(* required amount is sufficient.                                           *)
C4_InsufficientFunds ==
    [][TradeAtFreshRate =>
        LET c == last'
            w == svc[c.svc].wallets
            debit == DebitCode(c)
            required == IF c.op = "buy"
                        THEN FMul(F(Num(c.amount)), F(EntryRate(c.code, c.base)))
                        ELSE F(Num(c.amount))
        IN
        /\ FLt(Bal(w, debit), required) =>
              /\ c.kind = "InsufficientFundsError"
              /\ c.available = Bal(w, debit)
              /\ c.required = required
              /\ c.errcode = debit
              /\ ~c.saved
              /\ portfolios' = portfolios
              /\ \A x \in Registry : Bal(svc'[c.svc].wallets, x) = Bal(w, x)
        /\ Bal(w, debit) = required =>
              /\ c.kind # "InsufficientFundsError"
              /\ c.saved]_vars

\* a buy costing 2 was refused with 1 available
C4_Witness ==
    /\ last.op = "buy"
    /\ last.kind = "InsufficientFundsError"
    /\ last.available = F(1)
    /\ last.required = F(2)
    /\ last.errcode = "USD"

(* C5: a buy of a of X against B at the fresh cached rate r > 0, with base  *)
(* balance >= a*r, decreases the B wallet by exactly a*r, increases the X   *)
(* wallet by exactly a, changes no other wallet, and the stored portfolio   *)
(* of the user holds exactly the new balances.                              *)
C5_BuyEffect ==
    [][(TradeAtFreshRate /\ last'.op = "buy") =>
        LET c == last'
            w == svc[c.svc].wallets
            w2 == svc'[c.svc].wallets
            cost == FMul(F(Num(c.amount)), F(EntryRate(c.code, c.base)))
        IN
        FLe(cost, Bal(w, c.base)) =>
            /\ c.saved
            /\ DOMAIN w2 = DOMAIN w \cup {c.code, c.base}
            /\ w2[c.base] = FSub(Bal(w, c.base), cost)
            /\ w2[c.code] = FAdd(Bal(w, c.code), F(Num(c.amount)))
            /\ \A x \in DOMAIN w \ {c.code, c.base} : w2[x] = w[x]
            /\ Persisted(portfolios', svc[c.svc].user) = w2]_vars

\* 1 BTC was bought at rate 2 with 2 USD, next to an EUR wallet
C5_Witness ==
    /\ last.op = "buy"
    /\ last.saved
    /\ last.amount = "1"
    /\ last.rate = 2
    /\ Bal(last.before, "USD") = F(2)
    /\ svc[last.svc].wallets = [c \in Registry |->
                                   IF c = "USD" THEN F(0) ELSE IF c = "BTC" THEN F(2) ELSE F(1)]
    /\ Persisted(portfolios, 1) = svc[last.svc].wallets

(* C6: a sell of a of X against B at the fresh cached rate r > 0, with X    *)
(* balance >= a, decreases the X wallet by exactly a, increases the B       *)
(* wallet by exactly a*r, changes no other wallet, and the stored portfolio *)
(* of the user holds exactly the new balances.                              *)
C6_SellEffect ==
    [][(TradeAtFreshRate /\ last'.op = "sell") =>
        LET c == last'
            w == svc[c.svc].wallets
            w2 == svc'[c.svc].wallets
            proceeds == FMul(F(Num(c.amount)), F(EntryRate(c.code, c.base)))
        IN
        FLe(F(Num(c.amount)), Bal(w, c.code)) =>
            /\ c.saved
            /\ DOMAIN w2 = DOMAIN w \cup {c.code, c.base}
            /\ w2[c.code] = FSub(Bal(w, c.code), F(Num(c.amount)))
            /\ w2[c.base] = FAdd(Bal(w, c.base), proceeds)
            /\ \A x \in DOMAIN w \ {c.code, c.base} : w2[x] = w[x]
            /\ Persisted(portfolios', svc[c.svc].user) = w2]_vars

\* 1 BTC was sold at rate 2 from a portfolio with 0 USD, next to an EUR wallet
C6_Witness ==
    /\ last.op = "sell"
    /\ last.saved
    /\ last.amount = "1"
    /\ last.rate = 2
    /\ Bal(last.before, "USD") = F(0)
    /\ Bal(svc[last.svc].wallets, "USD") = F(2)
    /\ "EUR" \in DOMAIN svc[last.svc].wallets
    /\ Persisted(portfolios, 1) = svc[last.svc].wallets

(* C7: every buy and every sell that passes the amount, currency, rate and  *)
(* funds checks returns a result with the amount traded, the rate used, the *)
(* base currency, both resulting balances and rate_fresh = true; none ends  *)
(* by raising an error.                                                     *)
C7_ExecutedTradeReturnsResult ==
    (last.op \in Trades /\ last.executed) =>
        /\ last.returned
        /\ last.kind = "ok"
        /\ last.result.amount = last.amount_float
        /\ last.result.rate = last.rate
        /\ last.result.base_currency = last.base
        /\ last.result.new_balance = Bal(svc[last.svc].wallets, last.code)
        /\ last.result.base_balance = Bal(svc[last.svc].wallets, last.base)
        /\ last.result.rate_fresh

(* C8: at the end of any buy or sell, for every value the cached rate may   *)
(* hold, the service's portfolio has both the debit and the credit applied  *)
(* or neither: no call ends with the debit wallet reduced and the credit    *)
(* wallet not increased.                                                    *)
C8_DebitAndCreditTogether ==
    [][last'.op \in Trades =>
        LET c == last'
            w == svc[c.svc].wallets
            w2 == svc'[c.svc].wallets
        IN ~(/\ FLt(Bal(w2, DebitCode(c)), Bal(w, DebitCode(c)))
             /\ ~FLt(Bal(w, CreditCode(c)), Bal(w2, CreditCode(c))))]_vars

(* C9: with the cache entry X_B unchanged and fresh, a buy of a (with       *)
(* sufficient base funds) followed by a sell of a leaves the X and the B    *)
(* wallet at their balances before the buy.                                 *)
C9_BuySellRoundTrip ==
    [][(/\ last.op = "buy" /\ last.saved
        /\ Num(last.amount) > 0
        /\ FLe(FMul(F(Num(last.amount)), F(last.rate)), Bal(last.before, last.base))
        /\ last'.op = "sell"
        /\ last'.svc = last.svc /\ last'.code = last.code
        /\ last'.amount = last.amount /\ last'.base = last.base) =>
            /\ last'.saved
            /\ last'.rate = last.rate
            /\ Bal(svc'[last.svc].wallets, last.code) = Bal(last.before, last.code)
            /\ Bal(svc'[last.svc].wallets, last.base) = Bal(last.before, last.base)]_vars

(* C10: each trade reads, mutates and writes back the user's portfolio as   *)
(* it is stored at the time of the trade: in a series of successful trades  *)
(* of one user, through one or several PortfolioService objects, each trade *)
(* changes the stored balances by exactly its debit and its credit, so the  *)
(* stored balances are the initial ones plus the sum of all debits and      *)
(* credits.                                                                 *)
C10_TradesAccumulateInStore ==
    [][(last'.op \in Trades /\ last'.returned /\ clean') =>
        LET c == last'
            u == svc[c.svc].user
            old == Persisted(portfolios, u)
            new == Persisted(portfolios', u)
            debited == IF c.op = "buy" THEN FMul(c.amount_float, F(c.rate)) ELSE c.amount_float
            credited == IF c.op = "buy" THEN c.amount_float ELSE FMul(c.amount_float, F(c.rate))
        IN \A x \in Registry :
              Bal(new, x) = IF x = DebitCode(c) THEN FSub(Bal(old, x), debited)
                            ELSE IF x = CreditCode(c) THEN FAdd(Bal(old, x), credited)
                            ELSE Bal(old, x)]_vars

(* C11: Wallet.withdraw(amount) with amount greater than the balance is     *)
(* rejected with InsufficientFunds (carrying the balance and the amount)    *)
(* and leaves the balance unchanged, so that repeating it gives the same    *)
(* error and the same balance; Wallet.deposit and Wallet.withdraw with      *)
(* amount <= 0 are rejected with the balance unchanged.                     *)
C11_WalletRejections ==
    [][last'.op \in {"deposit", "withdraw"} =>
        LET c == last'
            balance == svc[c.svc].wallets[c.code]
        IN
        /\ (c.op = "withdraw" /\ FLt(balance, c.amount_float)) =>
              /\ c.kind = "InsufficientFundsError"
              /\ c.available = balance
              /\ c.required = c.amount_float
              /\ svc' = svc /\ portfolios' = portfolios
        /\ FLe(c.amount_float, Zero) =>
              /\ c.kind = "ValueError"
              /\ svc' = svc /\ portfolios' = portfolios
        /\ (last.op = "withdraw" /\ last.kind = "InsufficientFundsError"
            /\ c.op = "withdraw" /\ c.svc = last.svc /\ c.code = last.code
            /\ c.amount_float = last.amount_float) =>
              /\ c.kind = last.kind
              /\ c.available = last.available
              /\ svc' = svc]_vars

\* a withdrawal of 1 from a wallet holding 0 was rejected
C11_Witness ==
    /\ last.op = "withdraw"
    /\ last.kind = "InsufficientFundsError"
    /\ last.available = F(0)
    /\ last.required = F(1)
    /\ svc[last.svc].wallets[last.code] = F(0)

\* the amount strings that denote a positive real number
PositiveAmounts == {a \in AmountStrings : Num(a) > 0}

(* C12: buy_currency and sell_currency called with an amount string that   *)
(* is not numeric or denotes a number <= 0 fail with the invalid-amount     *)
(* error (the ValueError of validate_amount) before anything else happens:  *)
(* no wallet is created or changed and the portfolio store is not written.  *)
C12_InvalidAmountRejectedFirst ==
    [][(last'.op \in Trades /\ last'.amount \notin PositiveAmounts) =>
        /\ last'.kind = "ValueError"
        /\ last'.reason = "amount"
        /\ svc' = svc
        /\ portfolios' = portfolios]_vars

(* C13: get_rate(from, to) returns (rate, updated_at) of the cached entry    *)
(* exactly when the entry is present and aged less than the TTL; it fails    *)
(* with RateUnavailable when the entry is absent and with RateStale when it  *)
(* is stale; no store changes.                                               *)
C13_GetRateByFreshness ==
    [][(last'.op = "get_rate" /\ last'.code \in Registry /\ last'.base \in Registry) =>
        LET c == last'
            k == PairKey(c.code, c.base)
        IN
        /\ c.returned <=> HasFreshEntry(c.code, c.base)
        /\ c.returned => /\ c.rate = rates.pairs[k].rate
                         /\ c.updated_at = rates.pairs[k].updated_at
        /\ k \notin DOMAIN rates.pairs => c.kind = "RateUnavailable"
        /\ (k \in DOMAIN rates.pairs /\ ~HasFreshEntry(c.code, c.base)) =>
              c.kind = "RateStale"
        /\ rates' = rates /\ portfolios' = portfolios /\ svc' = svc
        /\ history' = history]_vars

(* C14: the cache lookup returns nothing when the pair is absent or its rate *)
(* is zero or negative; no rate <= 0 reaches a trade or get_rate.            *)
C14_LookupNeverNonPositive ==
    /\ \A k \in PairKeys :
          LET r == _get_cached_rate(k[1], k[2]) IN
          /\ (k \notin DOMAIN rates.pairs \/ rates.pairs[k].rate <= 0) => r.none
          /\ ~r.none => r.rate > 0
    /\ (last.op = "get_rate" /\ last.returned) => last.rate > 0

\* the age of the cached entry (from, to); the entry is present
EntryAge(from_cur, to_cur) == now - rates.pairs[<<from_cur, to_cur>>].updated_at

(* C16: an entry is fresh exactly when now - updated_at < TTL: buy, sell and *)
(* get_rate all go on at an age below the TTL (TTL - 1 included) and all     *)
(* fail as stale, changing nothing, at an age of the TTL or more.            *)
C16_StrictTtlBoundary ==
    [][(/\ last'.op \in Trades \cup {"get_rate"}
        /\ last'.code \in Registry /\ last'.base \in Registry
        /\ PairKey(last'.code, last'.base) \in DOMAIN rates.pairs
        /\ last'.op \in Trades => svc[last'.svc].user # NoUser) =>
        LET c == last'
            age == EntryAge(c.code, c.base)
        IN
        /\ age < RATES_TTL => c.reason \notin {"stale", "unavailable"}
        /\ (age < RATES_TTL /\ c.op = "get_rate") => c.returned
        /\ age >= RATES_TTL =>
              /\ c.reason = "stale" /\ ~c.returned /\ ~c.executed
              /\ svc' = svc /\ portfolios' = portfolios]_vars

\* a trade was blocked by an entry aged exactly the TTL
C16_Witness ==
    /\ last.op \in Trades /\ last.reason = "stale"
    /\ EntryAge(last.code, last.base) = RATES_TTL

(* C15: every entry the rate ingestion commits to the cache has rate > 0,    *)
(* whatever the providers answer: all cache entries are positive.            *)
C15_CommittedRatesPositive ==
    \A k \in DOMAIN rates.pairs : rates.pairs[k].rate > 0

(* C17: a save_current_rates call merges: the keys become the union of the   *)
(* old and the new ones, each new key holds the call's rate, write time and  *)
(* source, every other key keeps its entry, and last_refresh is the write    *)
(* time, not before any updated_at.                                          *)
C17_SaveMergesPerKey ==
    [][(last'.op = "run_update" /\ last'.saved) =>
        LET new_rates == last'.new_rates IN
        /\ DOMAIN rates'.pairs = DOMAIN rates.pairs \cup DOMAIN new_rates
        /\ \A k \in DOMAIN new_rates :
              rates'.pairs[k] = [rate |-> new_rates[k], updated_at |-> now,
                                 source |-> last'.source]
        /\ \A k \in DOMAIN rates.pairs \ DOMAIN new_rates :
              rates'.pairs[k] = rates.pairs[k]
        /\ rates'.last_refresh = now
        /\ \A k \in DOMAIN rates'.pairs :
              rates'.pairs[k].updated_at <= rates'.last_refresh]_vars

\* a later save wrote one key and left the entry of an earlier save in place
C17_Witness ==
    /\ last.op = "run_update" /\ last.saved
    /\ DOMAIN last.new_rates = {PairKey("EUR", BASE_CURRENCY)}
    /\ PairKey("BTC", BASE_CURRENCY) \in DOMAIN rates.pairs
    /\ rates.pairs[PairKey("BTC", BASE_CURRENCY)].updated_at < now
    /\ rates.pairs[PairKey("BTC", BASE_CURRENCY)].source = "coingecko,exchangerate"
    /\ rates.pairs[PairKey("EUR", BASE_CURRENCY)].updated_at = now
    /\ rates.pairs[PairKey("EUR", BASE_CURRENCY)].source = "exchangerate"
    /\ rates.last_refresh = now

\* the smaller of two numbers
Min(a, b) == IF a < b THEN a ELSE b

(* C20: the history never holds more records than its limit and equals, in  *)
(* append order, the last min(n, limit) of the n records appended; an append *)
(* to a full history removes exactly the oldest record.                      *)
C20_HistoryKeepsNewest ==
    [][/\ Len(history') <= HistoryLimit
       /\ history' = LastRecords(log', Min(Len(log'), HistoryLimit))
       /\ (Len(history) = HistoryLimit /\ Len(log') = Len(log) + 1) =>
             history' = Append(Tail(history), log'[Len(log')])]_vars

\* a record was appended to a full history
C20_Witness ==
    /\ Len(log) = HistoryLimit + 1
    /\ Len(history) = HistoryLimit
    /\ history[HistoryLimit] = log[Len(log)]
    /\ history[1] = log[2]
    /\ log[1] # log[2]

(* C18: when the command and the scheduler run save_current_rates at the     *)
(* same time, then however their steps interleave, once both calls have      *)
(* returned the cache holds every key that only one of them wrote, with the  *)
(* rate that call wrote.                                                     *)
C18_NoKeyLost ==
    (\A p \in Threads : job[p].pc = "done") =>
        \A p \in Threads : \A q \in Threads \ {p} :
            \A k \in DOMAIN job[p].new_rates \ DOMAIN job[q].new_rates :
                /\ k \in DOMAIN rates.pairs
                /\ rates.pairs[k].rate = job[p].new_rates[k]

(* C19: while the command and the scheduler save the same file, the file     *)
(* always holds the whole content it had before or the whole content of one  *)
(* save call, never a part or a mix, and no save call fails because of the   *)
(* other.                                                                    *)
C19_AtomicSaves ==
    /\ Decode(disk.path).ok
    /\ Decode(disk.path).value \in
          {EmptyCache} \cup {job[p].cache : p \in {q \in Threads : job[q].pc # "idle"}}
    /\ \A p \in Threads : job[p].pc # "failed"

\* the sources run_update(source) asks, in the order it asks them
Selected(source) ==
    IF source = NoSource THEN SourceNames
    ELSE IF source \in {SourceNames[1], SourceNames[2]} THEN <<source>>
    ELSE <<>>

\* the source that gives the rate of a pair
ProviderOf(pair_key) ==
    IF pair_key[1] \in CRYPTO_CURRENCIES THEN SourceNames[1] ELSE SourceNames[2]

\* the sources a run_update call asked, as a set
AskedNames(c) == {n \in DOMAIN c.fetched : c.fetched[n].kind # ""}

(* C21: whatever each provider does (gives rates, gives nothing, raises      *)
(* ApiRequestError or anything else), run_update asks every selected         *)
(* provider, returns without raising, and both its result and the cache hold *)
(* every rate that a provider returned.                                      *)
C21_UpdateSurvivesProviders ==
    [][last'.op = "run_update" =>
        LET c == last' IN
        /\ c.returned /\ c.kind = "ok"
        /\ AskedNames(c) = {Selected(c.selection)[i] : i \in 1..Len(Selected(c.selection))}
        /\ \A n \in AskedNames(c) :
              c.fetched[n].kind # "raised" =>
                 \A k \in DOMAIN c.fetched[n].rates :
                    /\ k \in DOMAIN c.new_rates
                    /\ c.new_rates[k] = c.fetched[n].rates[k]
                    /\ k \in DOMAIN rates'.pairs
                    /\ rates'.pairs[k].rate = c.fetched[n].rates[k]
                    /\ rates'.pairs[k].updated_at = now]_vars

\* the first of two providers raised and the rate of the second was committed
C21_Witness ==
    /\ last.op = "run_update" /\ last.selection = NoSource
    /\ last.fetched["coingecko"].kind = "raised"
    /\ last.fetched["exchangerate"].kind = "rates"
    /\ last.saved
    /\ DOMAIN last.new_rates = {PairKey("EUR", BASE_CURRENCY)}
    /\ rates.pairs[PairKey("EUR", BASE_CURRENCY)].rate
          = last.new_rates[PairKey("EUR", BASE_CURRENCY)]

\* the comma-joined names of the providers that gave rates to the call c
ExpectedTag(c) ==
    IF c.fetched["coingecko"].kind = "rates" /\ c.fetched["exchangerate"].kind = "rates"
    THEN "coingecko,exchangerate"
    ELSE IF c.fetched["coingecko"].kind = "rates" THEN "coingecko"
    ELSE IF c.fetched["exchangerate"].kind = "rates" THEN "exchangerate"
    ELSE ""

(* C22: a run_update call whose merged rates are not empty writes the cache  *)
(* once, every written entry tagged with the comma-joined names of the       *)
(* providers that gave rates; a call whose merged rates are empty leaves the *)
(* cache, pairs and last_refresh, as it was and returns the empty result.    *)
C22_OneTaggedCommit ==
    [][last'.op = "run_update" =>
        LET c == last' IN
        /\ DOMAIN c.new_rates # {} =>
              /\ c.saved
              /\ rates' = save_current_rates(rates, c.new_rates, ExpectedTag(c), now)
              /\ \A k \in DOMAIN c.new_rates : rates'.pairs[k].source = ExpectedTag(c)
              /\ rates'.last_refresh = now
        /\ DOMAIN c.new_rates = {} =>
              /\ ~c.saved /\ c.returned /\ c.kind = "ok"
              /\ rates' = rates /\ disk' = disk]_vars

\* both providers gave a rate and both entries carry both names
C22_Witness ==
    /\ last.op = "run_update" /\ last.saved
    /\ DOMAIN last.new_rates = IngestKeys
    /\ \A k \in IngestKeys : /\ k \in DOMAIN rates.pairs
                             /\ rates.pairs[k].source = "coingecko,exchangerate"

ExpectedWaits(n) == [k \in 1..n |-> RETRY_DELAY * k]

\* the request stands as the claim says it must
RequestInOrder ==
    /\ Len(req.seen) <= REQUEST_RETRIES
    /\ \A i \in 1..(Len(req.seen) - 1) : req.seen[i] = "transport"
    /\ req.pc = "trying" =>
          /\ \A i \in 1..Len(req.seen) : req.seen[i] = "transport"
          /\ Len(req.seen) < REQUEST_RETRIES
          /\ req.waits = ExpectedWaits(Len(req.seen))
    /\ req.pc = "returned" =>
          /\ req.seen[Len(req.seen)] = "ok"
          /\ req.waits = ExpectedWaits(Len(req.seen) - 1)
    /\ req.pc = "raised" =>
          /\ req.kind = "ApiRequestError"
          /\ req.waits = ExpectedWaits(Len(req.seen) - 1)
          /\ \/ req.seen[Len(req.seen)] = "http_error"
             \/ /\ req.seen[Len(req.seen)] = "transport"
                /\ Len(req.seen) = REQUEST_RETRIES

(* C24: _make_request makes at most REQUEST_RETRIES attempts; after the k-th *)
(* attempt failed by a transport failure, k < REQUEST_RETRIES, it waits      *)
(* RETRY_DELAY * k; it returns on the first attempt that succeeds, raises    *)
(* ApiRequestError when all attempts failed or a response has another status *)
(* than 200, and always terminates.                                          *)
C24_BoundedRetries ==
    /\ []RequestInOrder
    /\ (req.pc = "trying") ~> (req.pc \in {"returned", "raised"})

\* every attempt failed: two pauses, then ApiRequestError
C24_Witness ==
    /\ req.pc = "raised"
    /\ req.seen = <<"transport", "transport", "transport">>
    /\ req.waits = <<RETRY_DELAY, RETRY_DELAY * 2>>


\* the loop threads that are alive
LiveLoops == {t \in ThreadIds : Alive(sched.loops[t])}

\* C25: in every reachable state, under any sequence of start() and stop()
\* calls and any duration of an ingestion run or of the pause after an error
\* (a stop() whose join times out included), at most one loop thread is alive.
C25_OneLoopThread == Cardinality(LiveLoops) <= 1

\* C26: start() called while the scheduler is running changes nothing (no new
\* thread, stop flag and is_running as before), stop() called while it is
\* stopped changes nothing (the flag is not set, nothing is joined); start()
\* from stopped leads to running (one new thread, the flag cleared) and
\* stop() from running leads to is_running = false.
C26_StartStopTransitions ==
    [][/\ (last'.op = "start" /\ is_running(sched)) => sched' = sched
       /\ (last'.op = "start" /\ ~is_running(sched)) =>
             /\ is_running(sched')
             /\ ~sched'.stop_event
             /\ ~Alive(sched.loops[sched'.thread])
             /\ LiveLoops' = LiveLoops \cup {sched'.thread}
       /\ (last'.op = "stop" /\ ~is_running(sched)) => sched' = sched
       /\ (last'.op = "stop_set") =>
             /\ is_running(sched)
             /\ sched'.stop_event
             /\ LiveLoops' = LiveLoops
       /\ (last'.op = "stop_joined") => ~is_running(sched')]_vars

\* C26 witness: start() was called on a running scheduler.
C26_Witness ==
    /\ last.op = "start"
    /\ last.reason = "already running"
    /\ is_running(sched)

\* C27: a loop thread ends only at its while, with the stop flag set; an
\* ingestion run that raises is followed by the pause, the pause by the while,
\* and the while with the flag clear by another ingestion run: no failure of a
\* run ends the thread.
C27_LoopSurvivesFailures ==
    [][\A t \in ThreadIds :
          LET before == sched.loops[t]
              after == sched'.loops[t]
          IN  /\ (Alive(before) /\ ~Alive(after)) =>
                    (before.pc = "top" /\ sched.stop_event)
              /\ (last'.op = "loop_ingest" /\ last'.svc = t /\ last'.kind # "ok") =>
                    after.pc = "cooldown"
              /\ (before.pc = "cooldown" /\ after # before) => after.pc = "top"
              /\ (before.pc = "top" /\ after # before /\ ~sched.stop_event) =>
                    after.pc = "ingest"]_vars

\* C27 witness: a thread whose run had raised is in the next run.
C27_Witness ==
    \E t \in ThreadIds :
        /\ sched.loops[t].failed
        /\ sched.loops[t].pc = "ingest"
        /\ ~sched.stop_event

\* C28: a loop thread in its wait that finds the stop flag set leaves the wait
\* at that poll, before the interval is over, and runs nothing more before it
\* ends; and whenever the stop flag is set while a loop thread is alive, that
\* thread ends at some later time.
C28_StopEndsLoop ==
    /\ [][\A t \in ThreadIds :
             (/\ sched.loops[t].pc = "wait"
              /\ sched.stop_event
              /\ sched'.loops[t] # sched.loops[t]) => sched'.loops[t].pc = "top"]_vars
    /\ \A t \in ThreadIds :
          (sched.stop_event /\ Alive(sched.loops[t])) ~> ~Alive(sched.loops[t])


\* the user names in a users store
StoredNames(users_data) == {users_data[i].username : i \in 1..Len(users_data)}

\* no two records of a users store agree in field f
PairwiseDistinct(users_data, f(_)) ==
    \A i \in 1..Len(users_data) : \A j \in 1..Len(users_data) :
        i # j => f(users_data[i]) # f(users_data[j])

NameOf(u) == u.username
IdOf(u) == u.user_id

C30_FreshUserIds ==
    [][/\ PairwiseDistinct(users', IdOf)
       /\ (last'.op = "register" /\ last'.kind = "ok") =>
             /\ users' = Append(users, last'.user)
             /\ \A i \in 1..Len(users) : last'.user.user_id > users[i].user_id
       /\ (last'.op = "register" /\ last'.kind # "ok") => users' = users]_vars

\* C30 witness: a second user was registered.
C30_Witness ==
    /\ last.op = "register"
    /\ last.kind = "ok"
    /\ Len(users) >= 2
    /\ last.user = users[Len(users)]


\* C31: register with a password shorter than 4 characters or with an empty
\* or blank user name fails and writes no user and no portfolio;
\* change_password with a new password shorter than 4 characters fails and
\* leaves the hash as it was, so that verify_password accepts the old
\* password and no other.
C31_RejectedPasswordsChangeNothing ==
    [][/\ (/\ last'.op = "register"
           /\ \/ Len(last'.password) < MinPasswordLen
              \/ Strip(last'.username) = <<>>) =>
             /\ last'.kind = "ValueError"
             /\ users' = users
             /\ portfolios' = portfolios
       /\ (last'.op = "change_password" /\ Len(last'.password) < MinPasswordLen) =>
             /\ last'.kind = "ValueError"
             /\ cli'.current_user.hashed_password = cli.current_user.hashed_password
             /\ \A p \in Passwords :
                   verify_password(cli'.current_user, p) <=> p = cli.password]_vars

\* C31 witness: a short password was refused after the password had been
\* changed once.
C31_Witness ==
    /\ last.op = "change_password"
    /\ last.kind = "ValueError"
    /\ \E i \in 1..Len(users) :
          /\ users[i].user_id = cli.current_user.user_id
          /\ users[i].hashed_password # cli.current_user.hashed_password


\* the positions of the records of user_id in a portfolios store
RecordsOf(store, user_id) == {i \in 1..Len(store) : store[i].user_id = user_id}

\* every user has at most one record, and no record holds two wallets whose
\* codes agree in upper case
OneRecordOneWallet(store) ==
    /\ \A i \in 1..Len(store) : RecordsOf(store, store[i].user_id) = {i}
    /\ \A i \in 1..Len(store) : \A c \in DOMAIN store[i].wallets :
          \A d \in DOMAIN store[i].wallets : Upper(c) = Upper(d) => c = d

\* C32: a register call that succeeds leaves exactly one stored portfolio of
\* the new user_id, with no wallets; and after any sequence of register, buy
\* and sell calls every user_id has at most one stored portfolio and every
\* portfolio at most one wallet per currency code in upper case.
C32_OnePortfolioPerUser ==
    /\ []OneRecordOneWallet(portfolios)
    /\ [][(last'.op = "register" /\ last'.kind = "ok") =>
             /\ Cardinality(RecordsOf(portfolios', last'.user.user_id)) = 1
             /\ \A i \in RecordsOf(portfolios', last'.user.user_id) :
                   portfolios'[i].wallets = EmptyWallets]_vars

\* C32 witness: a user registered here has a portfolio and another user's
\* portfolio, after a trade written in lower case, holds the wallets of a trade.
C32_Witness ==
    /\ Len(users) = 2
    /\ Len(portfolios) = 2
    /\ portfolios[2].wallets = EmptyWallets
    /\ last.op \in {"buy", "sell"}
    /\ last.code = "btc"
    /\ last.saved
    /\ portfolios[1].wallets # SeedWallets

\* the cache lookup answers for a pair: the entry is there with a positive rate
Available(code, base) ==
    /\ PairKey(code, base) \in DOMAIN rates.pairs
    /\ rates.pairs[PairKey(code, base)].rate > 0

\* the value one wallet is to be shown with
ValuedRow(balance, code, base) ==
    IF code = base THEN [valued |-> TRUE, value |-> balance, stale |-> FALSE]
    ELSE IF Available(code, base)
    THEN [valued |-> TRUE,
          value |-> FMul(balance, F(rates.pairs[PairKey(code, base)].rate)),
          stale |-> ~IsFresh(rates.pairs[PairKey(code, base)].updated_at, now)]
    ELSE [valued |-> FALSE, value |-> Zero, stale |-> FALSE]

ValuedRows(w, base) == [c \in DOMAIN w |-> ValuedRow(w[c], c, base)]

\* C33: show-portfolio of a portfolio with wallets never fails over a rate: a
\* wallet in the base currency counts its balance, a wallet whose rate the
\* cache lookup answers counts balance * rate, fresh or not, and is noted when
\* stale, a wallet with no available rate has no value, and the total is the
\* sum of the counted values
C33_ValuationCountsAvailableRates ==
    [][(last'.op = "show-portfolio" /\ last'.reason = "")
        => /\ last'.kind = "ok"
           /\ last'.rows =
                ValuedRows(portfolios[IndexOf(portfolios, cli.current_user.user_id)].wallets,
                           last'.base)
           /\ last'.total = Total(last'.rows, CodeOrder, Zero)]_vars


\* C34: only exit, the end of the input or an interrupt ends the loop of
\* CLI.run: after any other line, whatever it holds, the loop reads on
C34_OnlyExitEndsTheLoop ==
    [][(cli.alive /\ ~cli'.alive) => last'.op \in {"exit", "eof", "interrupt"}]_vars


\* the first check of the trade c that fails on the wallets w, "" when every
\* check passes: amount, currency, rate presence, rate freshness, funds
FirstFailing(c, w) ==
    IF c.amount \notin PositiveAmounts THEN "amount"
    ELSE IF Upper(c.code) \notin Registry THEN "currency"
    ELSE IF ~Available(c.code, c.base) THEN "unavailable"
    ELSE IF ~HasFreshEntry(Upper(c.code), Upper(c.base)) THEN "stale"
    ELSE IF FLt(Bal(w, Upper(DebitCode(c))),
                IF c.op = "buy"
                THEN FMul(F(Num(c.amount)), F(EntryRate(Upper(c.code), Upper(c.base))))
                ELSE F(Num(c.amount)))
    THEN "funds"
    ELSE ""

\* C35: the checks of a trade run in the order amount, currency, rate
\* presence, rate freshness, funds, and the first one that fails decides the
\* error; debit, credit and persist happen only when all of them passed
C35_FirstFailingCheckDecides ==
    [][last'.op \in Trades =>
        /\ FirstFailing(last', svc[last'.svc].wallets) # "" =>
              /\ last'.reason = FirstFailing(last', svc[last'.svc].wallets)
              /\ ~last'.executed
              /\ ~last'.saved
              /\ portfolios' = portfolios
              /\ \A x \in Registry :
                    Bal(svc'[last'.svc].wallets, x) = Bal(svc[last'.svc].wallets, x)
        /\ FirstFailing(last', svc[last'.svc].wallets) = "" =>
              /\ last'.executed
              /\ last'.saved
              /\ Persisted(portfolios', svc[last'.svc].user) = svc'[last'.svc].wallets]_vars


\* C36: a wallet appears in a portfolio only through a trade that executes:
\* a buy or sell that fails adds no wallet to the wallets of its service,
\* and a wallet new in the stored portfolio is one of the two wallets of an
\* executed trade
C36_WalletsOnlyFromExecutedTrades ==
    [][last'.op \in Trades =>
        /\ ~last'.executed =>
              DOMAIN svc'[last'.svc].wallets = DOMAIN svc[last'.svc].wallets
        /\ \A x \in DOMAIN Persisted(portfolios', svc[last'.svc].user) :
              x \notin DOMAIN Persisted(portfolios, svc[last'.svc].user) =>
                 /\ last'.executed
                 /\ x \in {Upper(last'.code), Upper(last'.base)}]_vars


\* C37: whenever buy_currency or sell_currency ends by raising an exception,
\* of any kind, the stored portfolios are what they were before the call
C37_RaisedMeansNothingStored ==
    [][(last'.op \in Trades /\ last'.kind # "ok") =>
        /\ ~last'.saved
        /\ portfolios' = portfolios]_vars


\* stop() has returned and start() was not called since
StopReturned == sched.caller = "ready" /\ ~sched.running /\ sched.thread # 0

\* C38: once stop() has returned, and until start() is called again, the loop
\* thread of the preceding start() writes neither the rate cache nor the
\* history, whatever it was doing when stop() was called
C38_NoIngestionAfterStop ==
    [][(StopReturned /\ sched'.loops[sched.thread] # sched.loops[sched.thread]) =>
        /\ last'.op # "loop_ingest"
        /\ rates' = rates
        /\ history' = history
        /\ log' = log]_vars


\* C39: the save of a trade replaces the record of the trading user and
\* nothing else: every other record keeps its content and its position, and
\* the number of records changes only where the trading user had no record,
\* one record being appended then
C39_SaveReplacesOwnRecordOnly ==
    [][(last'.op \in Trades /\ last'.saved) =>
        /\ Len(portfolios') >= Len(portfolios)
        /\ \A i \in 1..Len(portfolios) :
              portfolios[i].user_id # svc[last'.svc].user => portfolios'[i] = portfolios[i]
        /\ IF RecordsOf(portfolios, svc[last'.svc].user) # {}
           THEN /\ Len(portfolios') = Len(portfolios)
                /\ \A i \in RecordsOf(portfolios, svc[last'.svc].user) :
                      portfolios'[i] = PortfolioRecord(svc[last'.svc].user,
                                                       svc'[last'.svc].wallets)
           ELSE portfolios' = Append(portfolios,
                                     PortfolioRecord(svc[last'.svc].user,
                                                     svc'[last'.svc].wallets))]_vars

\* C39 witness: the second user of a store of two sold, and the first user's
\* record is the one the store began with
C39_Witness ==
    /\ last.op = "sell"
    /\ last.saved
    /\ Len(portfolios) = 2
    /\ svc[last.svc].user = portfolios[2].user_id
    /\ portfolios[2].wallets # SeedWallets
    /\ portfolios[2].wallets = svc[last.svc].wallets
    /\ portfolios[1] = PortfolioRecord(1, SeedWallets)


\* C40: buy, sell and show-portfolio typed while nobody is logged in trade
\* nothing and leave the users, the portfolios and the rate stores as they
\* were; the current user changes only in a login that succeeds, to the
\* stored user of that name whose password was given, and a login that
\* fails leaves the current user as it was
C40_NoTradeWithoutLogin ==
    [][/\ (/\ last'.op \in {"buy", "sell", "show-portfolio"}
           /\ cli.current_user = NoUserRecord) =>
             /\ last'.reason = "login"
             /\ ~last'.executed
             /\ ~last'.saved
             /\ users' = users
             /\ portfolios' = portfolios
             /\ rates' = rates
             /\ history' = history
             /\ log' = log
       /\ cli'.current_user # cli.current_user =>
             /\ last'.op = "login"
             /\ last'.returned
             /\ cli'.current_user = users[UserIndex(users, last'.username)]
             /\ verify_password(cli'.current_user, last'.password)
       /\ (last'.op = "login" /\ ~last'.returned) =>
             cli'.current_user = cli.current_user]_vars

\* C40 witness: a buy was typed with nobody logged in, a funded user stored
\* and a rate cached
C40_Witness ==
    /\ last.op = "buy"
    /\ last.reason = "login"
    /\ cli.current_user = NoUserRecord
    /\ Len(portfolios) >= 1
    /\ portfolios[1].wallets = SeedWallets
    /\ Available("BTC", "USD")


====
